---- MODULE Spec2Model ----
(***************************************************************************)
(* Microsimulation core of the Medicaid frailty-exemption audit:           *)
(*   frailty_definitions/state_definitions.py  (policy catalog)            *)
(*   bias_analysis/algorithm_audit.py          (eligibility, simulator,    *)
(*                                              Monte Carlo, decomposition)*)
(*   bias_analysis/improved_algorithm.py       (improved definition)       *)
(*                                                                         *)
(* Conventions.  Probabilities and uniform draws are integers in           *)
(* thousandths (0.72 is 720).  Percentages and gaps are exact rationals    *)
(* [n, d]; d = 0 stands for not-a-number.  ICD-10 codes are sequences of   *)
(* one-character strings so that str.startswith and str.rstrip can be      *)
(* computed.  An Optional[Dict] argument is <<>> for None and <<m>> for    *)
(* the dict m.  A PWGTP cell is <<>> for NaN and <<w>> for the weight w.   *)
(***************************************************************************)
EXTENDS Integers, Sequences, FiniteSets, TLC

VARIABLES
    stream,      \* values produced by numpy's bit generator, by position
    sample_rot,  \* the row permutation DataFrame.sample(random_state=42) uses
    args,        \* arguments of the call under study
    rng,         \* generator the caller threads into simulate_exemption_single
    mc_rng,      \* generator local to run_monte_carlo, as its last run left it
    res,         \* what the last operation returned
    first_out,   \* table returned by the first run_monte_carlo call on args
    heap,        \* list and definition objects: the 13-family constant, the base
                 \* definitions under study and what the calls allocated
    tables       \* the module-level dicts P_DETECT and P_CERT of algorithm_audit
                 \* as they are now (a caller may have assigned other rates)

vars == <<stream, sample_rot, args, rng, mc_rng, res, first_out, heap, tables>>

-----------------------------------------------------------------------------
(* Bounds of the model *)

\* period of the modelled bit generator
PatLen == 2

\* largest n_sim explored
MaxNSim == 2

\* number of draws a caller-owned generator may hand out
MaxDraws == 4

\* values a uniform draw takes (thousandths)
\* synthesized definitions alive at once
MaxMade == 2

DrawVals == {400, 580, 700, 990}

-----------------------------------------------------------------------------
(* frailty_definitions/state_definitions.py *)

ExparteDetermination == {"FULL", "PARTIAL", "ACTIVE"}

ClaimsLag == {"SHORT", "MEDIUM", "LONG", "UNKNOWN"}

\* stringency_score is kept in tenths (8.9 is 89)
STATE_FRAILTY_DEFINITIONS ==
  <<
    [state_code |-> "GA",
     adl_threshold |-> 1,
     requires_prior_auth_record |-> FALSE,
     requires_physician_cert |-> TRUE,
     recognized_conditions |-> <<
         <<"F","2","0","-","F","2","9">>,
         <<"F","3","0","-","F","3","9">>,
         <<"F","4","0","-","F","4","8">>,
         <<"F","1","0","-","F","1","9">>,
         <<"G","1","0","-","G","1","4">>,
         <<"M","0","0","-","M","9","9">>,
         <<"C","0","0","-","D","4","9">> >>,
     ex_parte_determination |-> "PARTIAL",
     claims_lag |-> "MEDIUM",
     uses_ehr_data |-> FALSE,
     uses_hie |-> FALSE,
     uses_mds_data |-> FALSE,
     uses_claims_frailty_index |-> FALSE,
     stringency_score |-> 42],
    [state_code |-> "AR",
     adl_threshold |-> 1,
     requires_prior_auth_record |-> FALSE,
     requires_physician_cert |-> FALSE,
     recognized_conditions |-> <<
         <<"F","2","0","-","F","2","9">>,
         <<"F","3","0","-","F","3","9">>,
         <<"F","4","0","-","F","4","8">>,
         <<"F","1","0","-","F","1","9">>,
         <<"C","0","0","-","D","4","9">>,
         <<"N","1","8">>,
         <<"I","1","0","-","I","1","6">> >>,
     ex_parte_determination |-> "FULL",
     claims_lag |-> "MEDIUM",
     uses_ehr_data |-> FALSE,
     uses_hie |-> FALSE,
     uses_mds_data |-> FALSE,
     uses_claims_frailty_index |-> FALSE,
     stringency_score |-> 38],
    [state_code |-> "KY",
     adl_threshold |-> 1,
     requires_prior_auth_record |-> FALSE,
     requires_physician_cert |-> TRUE,
     recognized_conditions |-> <<
         <<"F","2","0","-","F","2","9">>,
         <<"F","3","0","-","F","3","9">>,
         <<"F","4","0","-","F","4","8">>,
         <<"F","1","0","-","F","1","9">>,
         <<"C","0","0","-","D","4","9">>,
         <<"G","3","5">>,
         <<"G","2","0">>,
         <<"M","0","5","-","M","0","6">> >>,
     ex_parte_determination |-> "PARTIAL",
     claims_lag |-> "MEDIUM",
     uses_ehr_data |-> FALSE,
     uses_hie |-> FALSE,
     uses_mds_data |-> FALSE,
     uses_claims_frailty_index |-> FALSE,
     stringency_score |-> 50],
    [state_code |-> "MT",
     adl_threshold |-> 1,
     requires_prior_auth_record |-> TRUE,
     requires_physician_cert |-> FALSE,
     recognized_conditions |-> <<
         <<"F","2","0","-","F","2","9">>,
         <<"F","3","0","-","F","3","9">>,
         <<"F","4","0","-","F","4","8">>,
         <<"F","1","0","-","F","1","9">>,
         <<"C","0","0","-","D","4","9">>,
         <<"G","1","0","-","G","1","4">>,
         <<"M","0","0","-","M","9","9">>,
         <<"Z","7","4">> >>,
     ex_parte_determination |-> "FULL",
     claims_lag |-> "MEDIUM",
     uses_ehr_data |-> FALSE,
     uses_hie |-> FALSE,
     uses_mds_data |-> FALSE,
     uses_claims_frailty_index |-> FALSE,
     stringency_score |-> 61],
    [state_code |-> "AZ",
     adl_threshold |-> 2,
     requires_prior_auth_record |-> TRUE,
     requires_physician_cert |-> TRUE,
     recognized_conditions |-> <<
         <<"F","2","0","-","F","2","9">>,
         <<"F","3","0","-","F","3","9">>,
         <<"F","1","0","-","F","1","9">>,
         <<"C","0","0","-","D","4","9">>,
         <<"N","1","8">>,
         <<"E","1","0","-","E","1","3">> >>,
     ex_parte_determination |-> "ACTIVE",
     claims_lag |-> "LONG",
     uses_ehr_data |-> FALSE,
     uses_hie |-> FALSE,
     uses_mds_data |-> FALSE,
     uses_claims_frailty_index |-> FALSE,
     stringency_score |-> 28],
    [state_code |-> "TX",
     adl_threshold |-> 1,
     requires_prior_auth_record |-> FALSE,
     requires_physician_cert |-> TRUE,
     recognized_conditions |-> <<
         <<"F","2","0","-","F","2","9">>,
         <<"F","3","0","-","F","3","9">>,
         <<"F","4","0","-","F","4","8">>,
         <<"F","1","0","-","F","1","9">>,
         <<"C","0","0","-","D","4","9">>,
         <<"G","2","0">>,
         <<"G","3","5">>,
         <<"M","0","5","-","M","0","6">> >>,
     ex_parte_determination |-> "ACTIVE",
     claims_lag |-> "LONG",
     uses_ehr_data |-> FALSE,
     uses_hie |-> FALSE,
     uses_mds_data |-> FALSE,
     uses_claims_frailty_index |-> FALSE,
     stringency_score |-> 35],
    [state_code |-> "IN",
     adl_threshold |-> 1,
     requires_prior_auth_record |-> FALSE,
     requires_physician_cert |-> FALSE,
     recognized_conditions |-> <<
         <<"F","2","0","-","F","2","9">>,
         <<"F","3","0","-","F","3","9">>,
         <<"F","4","0","-","F","4","8">>,
         <<"F","1","0","-","F","1","9">>,
         <<"C","0","0","-","D","4","9">>,
         <<"E","1","0","-","E","1","3">>,
         <<"I","5","0">>,
         <<"J","4","4">> >>,
     ex_parte_determination |-> "FULL",
     claims_lag |-> "SHORT",
     uses_ehr_data |-> FALSE,
     uses_hie |-> TRUE,
     uses_mds_data |-> FALSE,
     uses_claims_frailty_index |-> FALSE,
     stringency_score |-> 58],
    [state_code |-> "OH",
     adl_threshold |-> 1,
     requires_prior_auth_record |-> FALSE,
     requires_physician_cert |-> FALSE,
     recognized_conditions |-> <<
         <<"F","2","0","-","F","2","9">>,
         <<"F","3","0","-","F","3","9">>,
         <<"F","4","0","-","F","4","8">>,
         <<"F","1","0","-","F","1","9">>,
         <<"C","0","0","-","D","4","9">>,
         <<"G","1","0","-","G","9","9">>,
         <<"M","0","0","-","M","9","9">> >>,
     ex_parte_determination |-> "PARTIAL",
     claims_lag |-> "MEDIUM",
     uses_ehr_data |-> FALSE,
     uses_hie |-> FALSE,
     uses_mds_data |-> FALSE,
     uses_claims_frailty_index |-> FALSE,
     stringency_score |-> 53],
    [state_code |-> "MI",
     adl_threshold |-> 1,
     requires_prior_auth_record |-> FALSE,
     requires_physician_cert |-> FALSE,
     recognized_conditions |-> <<
         <<"F","2","0","-","F","2","9">>,
         <<"F","3","0","-","F","3","9">>,
         <<"F","4","0","-","F","4","8">>,
         <<"F","1","0","-","F","1","9">>,
         <<"C","0","0","-","D","4","9">>,
         <<"N","1","8">>,
         <<"I","1","0","-","I","1","6">>,
         <<"E","1","0","-","E","1","3">> >>,
     ex_parte_determination |-> "FULL",
     claims_lag |-> "SHORT",
     uses_ehr_data |-> FALSE,
     uses_hie |-> FALSE,
     uses_mds_data |-> FALSE,
     uses_claims_frailty_index |-> TRUE,
     stringency_score |-> 59],
    [state_code |-> "NY",
     adl_threshold |-> 1,
     requires_prior_auth_record |-> FALSE,
     requires_physician_cert |-> FALSE,
     recognized_conditions |-> <<
         <<"F","2","0","-","F","2","9">>,
         <<"F","3","0","-","F","3","9">>,
         <<"F","4","0","-","F","4","8">>,
         <<"F","1","0","-","F","1","9">>,
         <<"C","0","0","-","D","4","9">>,
         <<"G","1","0","-","G","9","9">>,
         <<"M","0","0","-","M","9","9">>,
         <<"I","0","0","-","I","9","9">>,
         <<"J","0","0","-","J","9","9">>,
         <<"N","0","0","-","N","9","9">>,
         <<"E","0","0","-","E","9","0">> >>,
     ex_parte_determination |-> "FULL",
     claims_lag |-> "SHORT",
     uses_ehr_data |-> TRUE,
     uses_hie |-> TRUE,
     uses_mds_data |-> TRUE,
     uses_claims_frailty_index |-> FALSE,
     stringency_score |-> 84],
    [state_code |-> "CA",
     adl_threshold |-> 1,
     requires_prior_auth_record |-> FALSE,
     requires_physician_cert |-> FALSE,
     recognized_conditions |-> <<
         <<"F","2","0","-","F","2","9">>,
         <<"F","3","0","-","F","3","9">>,
         <<"F","4","0","-","F","4","8">>,
         <<"F","1","0","-","F","1","9">>,
         <<"C","0","0","-","D","4","9">>,
         <<"G","1","0","-","G","9","9">>,
         <<"M","0","0","-","M","9","9">>,
         <<"I","0","0","-","I","9","9">>,
         <<"J","0","0","-","J","9","9">>,
         <<"N","0","0","-","N","9","9">>,
         <<"E","0","0","-","E","9","0">>,
         <<"Z","5","9">>,
         <<"Z","6","0">> >>,
     ex_parte_determination |-> "FULL",
     claims_lag |-> "SHORT",
     uses_ehr_data |-> FALSE,
     uses_hie |-> TRUE,
     uses_mds_data |-> FALSE,
     uses_claims_frailty_index |-> FALSE,
     stringency_score |-> 89],
    [state_code |-> "FL",
     adl_threshold |-> 2,
     requires_prior_auth_record |-> FALSE,
     requires_physician_cert |-> TRUE,
     recognized_conditions |-> <<
         <<"F","2","0","-","F","2","9">>,
         <<"F","3","0","-","F","3","9">>,
         <<"F","1","0","-","F","1","9">>,
         <<"C","0","0","-","D","4","9">>,
         <<"N","1","8">>,
         <<"E","1","0","-","E","1","3">> >>,
     ex_parte_determination |-> "ACTIVE",
     claims_lag |-> "LONG",
     uses_ehr_data |-> FALSE,
     uses_hie |-> FALSE,
     uses_mds_data |-> FALSE,
     uses_claims_frailty_index |-> FALSE,
     stringency_score |-> 24],
    [state_code |-> "NC",
     adl_threshold |-> 1,
     requires_prior_auth_record |-> FALSE,
     requires_physician_cert |-> FALSE,
     recognized_conditions |-> <<
         <<"F","2","0","-","F","2","9">>,
         <<"F","3","0","-","F","3","9">>,
         <<"F","4","0","-","F","4","8">>,
         <<"F","1","0","-","F","1","9">>,
         <<"C","0","0","-","D","4","9">>,
         <<"G","1","0","-","G","9","9">>,
         <<"M","0","0","-","M","9","9">> >>,
     ex_parte_determination |-> "PARTIAL",
     claims_lag |-> "MEDIUM",
     uses_ehr_data |-> FALSE,
     uses_hie |-> TRUE,
     uses_mds_data |-> FALSE,
     uses_claims_frailty_index |-> FALSE,
     stringency_score |-> 60],
    [state_code |-> "LA",
     adl_threshold |-> 1,
     requires_prior_auth_record |-> FALSE,
     requires_physician_cert |-> FALSE,
     recognized_conditions |-> <<
         <<"F","2","0","-","F","2","9">>,
         <<"F","3","0","-","F","3","9">>,
         <<"F","4","0","-","F","4","8">>,
         <<"F","1","0","-","F","1","9">>,
         <<"C","0","0","-","D","4","9">>,
         <<"E","1","0","-","E","1","3">>,
         <<"I","1","0","-","I","1","6">>,
         <<"J","4","4">> >>,
     ex_parte_determination |-> "PARTIAL",
     claims_lag |-> "MEDIUM",
     uses_ehr_data |-> FALSE,
     uses_hie |-> FALSE,
     uses_mds_data |-> FALSE,
     uses_claims_frailty_index |-> FALSE,
     stringency_score |-> 48],
    [state_code |-> "OK",
     adl_threshold |-> 1,
     requires_prior_auth_record |-> FALSE,
     requires_physician_cert |-> TRUE,
     recognized_conditions |-> <<
         <<"F","2","0","-","F","2","9">>,
         <<"F","3","0","-","F","3","9">>,
         <<"F","4","0","-","F","4","8">>,
         <<"F","1","0","-","F","1","9">>,
         <<"C","0","0","-","D","4","9">>,
         <<"E","1","0","-","E","1","3">>,
         <<"I","1","0","-","I","1","6">> >>,
     ex_parte_determination |-> "PARTIAL",
     claims_lag |-> "MEDIUM",
     uses_ehr_data |-> FALSE,
     uses_hie |-> FALSE,
     uses_mds_data |-> FALSE,
     uses_claims_frailty_index |-> FALSE,
     stringency_score |-> 41],
    [state_code |-> "TN",
     adl_threshold |-> 1,
     requires_prior_auth_record |-> FALSE,
     requires_physician_cert |-> TRUE,
     recognized_conditions |-> <<
         <<"F","2","0","-","F","2","9">>,
         <<"F","3","0","-","F","3","9">>,
         <<"F","1","0","-","F","1","9">>,
         <<"C","0","0","-","D","4","9">>,
         <<"E","1","0","-","E","1","3">>,
         <<"N","1","8">> >>,
     ex_parte_determination |-> "ACTIVE",
     claims_lag |-> "LONG",
     uses_ehr_data |-> FALSE,
     uses_hie |-> FALSE,
     uses_mds_data |-> FALSE,
     uses_claims_frailty_index |-> FALSE,
     stringency_score |-> 32],
    [state_code |-> "WI",
     adl_threshold |-> 1,
     requires_prior_auth_record |-> FALSE,
     requires_physician_cert |-> FALSE,
     recognized_conditions |-> <<
         <<"F","2","0","-","F","2","9">>,
         <<"F","3","0","-","F","3","9">>,
         <<"F","4","0","-","F","4","8">>,
         <<"F","1","0","-","F","1","9">>,
         <<"C","0","0","-","D","4","9">>,
         <<"G","1","0","-","G","9","9">>,
         <<"M","0","0","-","M","9","9">>,
         <<"I","0","0","-","I","9","9">> >>,
     ex_parte_determination |-> "FULL",
     claims_lag |-> "SHORT",
     uses_ehr_data |-> FALSE,
     uses_hie |-> TRUE,
     uses_mds_data |-> FALSE,
     uses_claims_frailty_index |-> FALSE,
     stringency_score |-> 64]
  >>

RECURSIVE ByCodeFrom(_, _)
ByCodeFrom(i, code) ==
    IF i = 0 THEN <<>>
    ELSE IF STATE_FRAILTY_DEFINITIONS[i].state_code = code
         THEN <<STATE_FRAILTY_DEFINITIONS[i]>>
         ELSE ByCodeFrom(i - 1, code)

\* dict.get of the lookup dictionary: <<>> for None, <<d>> for a hit
\* (a later entry of the list overwrites an earlier one with the same code)
STATE_FRAILTY_BY_CODE(code) ==
    ByCodeFrom(Len(STATE_FRAILTY_DEFINITIONS), code)

\* str.upper on the state codes requested in this model; a code without
\* lower-case letters is returned as it is
Upper(code) ==
    CASE code = "ga" -> "GA"
      [] code = "Ca" -> "CA"
      [] code = "zz" -> "ZZ"
      [] OTHER       -> code

\* lines 675-677: <<>> is None
get_state_definition(state_code) == STATE_FRAILTY_BY_CODE(Upper(state_code))

\* the score in twelfths before clamping, with the frailty-index penalty
\* applied whether or not an HIE is used
StringencyTwelfths_cfi_always(defn) ==
    60
    - (IF defn.adl_threshold >= 3 THEN 24 ELSE IF defn.adl_threshold = 2 THEN 12 ELSE 0)
    - (IF defn.requires_physician_cert THEN 12 ELSE 0)
    - (IF defn.requires_prior_auth_record THEN 6 ELSE 0)
    + (IF defn.ex_parte_determination = "FULL" THEN 18
       ELSE IF defn.ex_parte_determination = "PARTIAL" THEN 0 ELSE 0 - 18)
    + (IF defn.claims_lag = "SHORT" THEN 12
       ELSE IF defn.claims_lag = "LONG" THEN 0 - 6 ELSE 0)
    + (IF defn.uses_hie THEN 6 ELSE 0)
    + (IF defn.uses_ehr_data THEN 6 ELSE 0)
    + (IF defn.uses_mds_data THEN 6 ELSE 0)
    + (IF Len(defn.recognized_conditions) <= 12
       THEN Len(defn.recognized_conditions) ELSE 12)
    - (IF defn.uses_claims_frailty_index THEN 6 ELSE 0)

\* lines 694-737: the score before clamping, in twelfths (5.0 is 60), so that
\* len(recognized_conditions) / 12 is exact
StringencyTwelfths(defn) ==
    60
    - (IF defn.adl_threshold >= 3 THEN 24 ELSE IF defn.adl_threshold = 2 THEN 12 ELSE 0)
    - (IF defn.requires_physician_cert THEN 12 ELSE 0)
    - (IF defn.requires_prior_auth_record THEN 6 ELSE 0)
    + (IF defn.ex_parte_determination = "FULL" THEN 18
       ELSE IF defn.ex_parte_determination = "PARTIAL" THEN 0 ELSE 0 - 18)
    + (IF defn.claims_lag = "SHORT" THEN 12
       ELSE IF defn.claims_lag = "LONG" THEN 0 - 6 ELSE 0)
    + (IF defn.uses_hie THEN 6 ELSE 0)
    + (IF defn.uses_ehr_data THEN 6 ELSE 0)
    + (IF defn.uses_mds_data THEN 6 ELSE 0)
    + (IF Len(defn.recognized_conditions) <= 12
       THEN Len(defn.recognized_conditions) ELSE 12)
    - (IF defn.uses_claims_frailty_index /\ ~ defn.uses_hie THEN 6 ELSE 0)

\* line 739: round(max(0.0, min(10.0, score)), 1), in tenths; round() takes a
\* tie to the even digit
ClampAndRound(twelfths) ==
    LET clamped == IF twelfths < 0 THEN 0 ELSE IF twelfths > 120 THEN 120 ELSE twelfths
        q == (clamped * 10) \div 12
        r == (clamped * 10) % 12
    IN  IF 2 * r < 12 THEN q
        ELSE IF 2 * r > 12 THEN q + 1
        ELSE IF q % 2 = 0 THEN q ELSE q + 1

\* lines 680-739: the returned score in tenths, and the definition as the call
\* leaves it
compute_stringency_score(defn) ==
    [value |-> ClampAndRound(StringencyTwelfths(defn)), defn |-> defn]

-----------------------------------------------------------------------------
(* bias_analysis/algorithm_audit.py: parameters *)

P_DETECT ==
    [r \in {"white", "black", "hispanic", "asian", "other"} |->
        CASE r = "white"    -> 720
          [] r = "black"    -> 580
          [] r = "hispanic" -> 610
          [] r = "asian"    -> 690
          [] r = "other"    -> 640]

P_DETECT_EXANTE_BONUS ==
    [m \in ExparteDetermination |->
        CASE m = "FULL"    -> 120
          [] m = "PARTIAL" -> 60
          [] m = "ACTIVE"  -> 0]

P_CERT ==
    [r \in {"white", "black", "hispanic", "asian", "other"} |->
        CASE r = "white"    -> 810
          [] r = "black"    -> 640
          [] r = "hispanic" -> 670
          [] r = "asian"    -> 760
          [] r = "other"    -> 700]

\* the two dicts as the source defines them
SourceTables == [P_DETECT |-> P_DETECT, P_CERT |-> P_CERT]

\* keys in dict order
ACS_DOMAINS == <<"DPHY_bin", "DREM_bin", "DDRS_bin", "DOUT_bin", "DEAR_bin", "DEYE_bin">>

ACS_TO_ICD_PREFIXES ==
    [d \in {"DPHY_bin", "DREM_bin", "DDRS_bin", "DOUT_bin", "DEAR_bin", "DEYE_bin"} |->
        CASE d = "DPHY_bin" -> << <<"M">>, <<"G">>, <<"S">>, <<"T">> >>
          [] d = "DREM_bin" -> << <<"F","2">>, <<"F","3">>, <<"F","4">>,
                                  <<"G","3","0">>, <<"G","3","1">>,
                                  <<"F","7">>, <<"F","8">> >>
          [] d = "DDRS_bin" -> << <<"M">>, <<"G">>, <<"I","6">>, <<"Z","7","4">> >>
          [] d = "DOUT_bin" -> << <<"Z","7","4">>, <<"F">>, <<"G">>, <<"M">>, <<"I">> >>
          [] d = "DEAR_bin" -> << <<"H","6">>, <<"H","7">>, <<"H","8">>, <<"H","9">> >>
          [] d = "DEYE_bin" -> << <<"H","0">>, <<"H","1">>, <<"H","2">>, <<"H","3">>,
                                  <<"H","4">>, <<"H","5">>,
                                  <<"E","1","0">>, <<"E","1","1">> >>]

ADL_DOMAINS == <<"DPHY_bin", "DDRS_bin", "DOUT_bin", "DREM_bin">>

-----------------------------------------------------------------------------
(* Python built-ins used by the code *)

\* str.startswith
StartsWith(s, p) ==
    /\ Len(p) <= Len(s)
    /\ SubSeq(s, 1, Len(p)) = p

\* str.rstrip('-'): drops every trailing '-'
RECURSIVE RStripDash(_)
RStripDash(s) ==
    IF s # <<>> /\ s[Len(s)] = "-"
    THEN RStripDash(SubSeq(s, 1, Len(s) - 1))
    ELSE s

\* truth value of an Optional[Dict]: None and the empty dict are falsy
Truthy(o) == o # <<>> /\ DOMAIN o[1] # {}

\* (override or table).get(key, default)
DictGet(m, key, default) == IF key \in DOMAIN m THEN m[key] ELSE default

Min(a, b) == IF a <= b THEN a ELSE b

-----------------------------------------------------------------------------
(* bias_analysis/algorithm_audit.py: clinical eligibility *)

\* inner loop of _condition_covered over recognized_conditions[j..]
RECURSIVE FamilyLoop(_, _, _)
FamilyLoop(prefix, recognized_conditions, j) ==
    IF j > Len(recognized_conditions) THEN FALSE
    ELSE LET icd_family == recognized_conditions[j]
         IN  IF \/ StartsWith(icd_family, prefix)
                \/ StartsWith(prefix, RStripDash(icd_family))
             THEN TRUE
             ELSE FamilyLoop(prefix, recognized_conditions, j + 1)

\* outer loop of _condition_covered over relevant_prefixes[i..]
RECURSIVE PrefixLoop(_, _, _)
PrefixLoop(relevant_prefixes, recognized_conditions, i) ==
    IF i > Len(relevant_prefixes) THEN FALSE
    ELSE IF FamilyLoop(relevant_prefixes[i], recognized_conditions, 1)
         THEN TRUE
         ELSE PrefixLoop(relevant_prefixes, recognized_conditions, i + 1)

\* the match in one direction only: the family starts with the prefix
_condition_covered_forward(acs_domain, recognized_conditions) ==
    /\ acs_domain \in DOMAIN ACS_TO_ICD_PREFIXES
    /\ \E i \in DOMAIN ACS_TO_ICD_PREFIXES[acs_domain],
          j \in DOMAIN recognized_conditions :
          StartsWith(recognized_conditions[j], ACS_TO_ICD_PREFIXES[acs_domain][i])

\* lines 174-188
_condition_covered(acs_domain, recognized_conditions) ==
    LET relevant_prefixes ==
            IF acs_domain \in DOMAIN ACS_TO_ICD_PREFIXES
            THEN ACS_TO_ICD_PREFIXES[acs_domain] ELSE <<>>
    IN  PrefixLoop(relevant_prefixes, recognized_conditions, 1)

RECURSIVE AdlCount(_, _)
AdlCount(individual, k) ==
    IF k = 0 THEN 0
    ELSE individual[ADL_DOMAINS[k]] + AdlCount(individual, k - 1)

\* the loop "for domain in ACS_TO_ICD_PREFIXES" from the k-th key on
RECURSIVE DomainLoop(_, _, _)
DomainLoop(individual, defn, k) ==
    IF k > Len(ACS_DOMAINS) THEN FALSE
    ELSE IF /\ individual[ACS_DOMAINS[k]] = 1
            /\ _condition_covered(ACS_DOMAINS[k], defn.recognized_conditions)
         THEN TRUE
         ELSE DomainLoop(individual, defn, k + 1)

\* the evaluator with the broad rule at more than 10 families
compute_clinical_eligibility_above_10(individual, defn) ==
    LET adl_count == AdlCount(individual, Len(ADL_DOMAINS))
    IN  IF adl_count < defn.adl_threshold THEN FALSE
        ELSE IF DomainLoop(individual, defn, 1) THEN TRUE
        ELSE individual.DIS_bin = 1 /\ Len(defn.recognized_conditions) > 10

\* lines 191-225
compute_clinical_eligibility(individual, defn) ==
    LET adl_count == AdlCount(individual, Len(ADL_DOMAINS))
    IN  IF adl_count < defn.adl_threshold THEN FALSE
        ELSE IF DomainLoop(individual, defn, 1) THEN TRUE
        ELSE IF individual.DIS_bin = 1 /\ Len(defn.recognized_conditions) >= 10
             THEN TRUE
             ELSE FALSE

-----------------------------------------------------------------------------
(* numpy.random.Generator *)

\* np.random.default_rng(seed): a fresh generator at the start of its stream
default_rng(seed) == [seed |-> seed, pos |-> 0]

\* Generator.random(): the next value of the stream, and the advanced generator
Random(g) ==
    [value |-> stream[(g.seed + g.pos) % PatLen],
     g     |-> [g EXCEPT !.pos = @ + 1]]

-----------------------------------------------------------------------------
(* bias_analysis/algorithm_audit.py: simulate_exemption_single *)

\* the detection probability without the ceiling of line 258
DetectionProbability_uncapped(race, defn, p_detect_override) ==
    LET p_det_base ==
            DictGet(IF Truthy(p_detect_override) THEN p_detect_override[1]
                    ELSE tables.P_DETECT,
                    race, DictGet(tables.P_DETECT, "other", 640))
        b0 == DictGet(P_DETECT_EXANTE_BONUS, defn.ex_parte_determination, 0)
        b1 == IF defn.uses_hie THEN b0 + 40 ELSE b0
        b2 == IF defn.uses_mds_data THEN b1 + 30 ELSE b1
    IN  IF defn.claims_lag = "SHORT" THEN p_det_base + b2 + 30 ELSE p_det_base + b2

\* lines 248-258: the detection probability
DetectionProbability(race, defn, p_detect_override) ==
    LET p_det_base ==
            DictGet(IF Truthy(p_detect_override) THEN p_detect_override[1]
                    ELSE tables.P_DETECT,
                    race, DictGet(tables.P_DETECT, "other", 640))
        b0 == DictGet(P_DETECT_EXANTE_BONUS, defn.ex_parte_determination, 0)
        b1 == IF defn.uses_hie THEN b0 + 40 ELSE b0
        b2 == IF defn.uses_mds_data THEN b1 + 30 ELSE b1
        exante_bonus == IF defn.claims_lag = "SHORT" THEN b2 + 30 ELSE b2
    IN  Min(p_det_base + exante_bonus, 980)

\* lines 266 and 274: the certification probability
CertProbability(race, p_cert_override) ==
    DictGet(IF Truthy(p_cert_override) THEN p_cert_override[1] ELSE tables.P_CERT,
            race, DictGet(tables.P_CERT, "other", 700))

\* one rng.random() compared with p: the outcome, the generator after the draw
\* and the log of draws (stage, value, threshold) extended by this one
Draw(g, stage, p, log) ==
    LET d == Random(g)
    IN  [below |-> d.value < p,
         g     |-> d.g,
         draws |-> Append(log, [stage |-> stage, value |-> d.value, p |-> p])]

\* what the call returns after a draw that decides the outcome
Decided(d) == [exempt |-> d.below, g |-> d.g, draws |-> d.draws]

\* the certification draw compared with the white rate for every race
ActiveCertStep_white_rate(race, g, p_cert_override, log) ==
    Decided(Draw(g, "cert", CertProbability("white", p_cert_override), log))

\* certification under ACTIVE ex parte obtained when the draw is not below
\* the certification probability
ActiveCertStep_not_below(race, g, p_cert_override, log) ==
    LET d == Draw(g, "cert", CertProbability(race, p_cert_override), log)
    IN  [exempt |-> ~ d.below, g |-> d.g, draws |-> d.draws]

\* lines 266-268: certification under ACTIVE ex parte
ActiveCertStep(race, g, p_cert_override, log) ==
    Decided(Draw(g, "cert", CertProbability(race, p_cert_override), log))

\* lines 272-275 after the auto-detection draw
AfterAutoDraw(race, p_cert_override, auto) ==
    IF auto.below
    THEN [exempt |-> TRUE, g |-> auto.g, draws |-> auto.draws]
    ELSE Decided(Draw(auto.g, "cert", CertProbability(race, p_cert_override),
                      auto.draws))

\* certification under PARTIAL ex parte without the auto-detection draw
PartialCertStep_no_auto(race, g, p_cert_override, log) ==
    Decided(Draw(g, "cert", CertProbability(race, p_cert_override), log))

\* lines 269-275: certification under PARTIAL ex parte
PartialCertStep(race, g, p_cert_override, log) ==
    AfterAutoDraw(race, p_cert_override, Draw(g, "auto", 500, log))

\* the documentation barrier with certification drawn whenever it is required
DocumentationBarrier_cert_in_full(race, defn, g, p_cert_override, log) ==
    IF defn.requires_physician_cert /\ defn.ex_parte_determination = "PARTIAL"
    THEN PartialCertStep(race, g, p_cert_override, log)
    ELSE IF defn.requires_physician_cert
         THEN ActiveCertStep(race, g, p_cert_override, log)
         ELSE [exempt |-> TRUE, g |-> g, draws |-> log]

\* lines 264-278: step 3, the documentation barrier of a visible individual
DocumentationBarrier(race, defn, g, p_cert_override, log) ==
    IF defn.requires_physician_cert /\ defn.ex_parte_determination = "ACTIVE"
    THEN ActiveCertStep(race, g, p_cert_override, log)
    ELSE IF defn.requires_physician_cert /\ defn.ex_parte_determination = "PARTIAL"
         THEN PartialCertStep(race, g, p_cert_override, log)
         ELSE [exempt |-> TRUE, g |-> g, draws |-> log]

\* lines 259-278 after the detection draw
AfterDetectionDraw(race, defn, p_cert_override, visible) ==
    IF ~ visible.below
    THEN [exempt |-> FALSE, g |-> visible.g, draws |-> visible.draws]
    ELSE DocumentationBarrier(race, defn, visible.g, p_cert_override, visible.draws)

\* the simulator with the detection draw taken before the eligibility check
simulate_exemption_single_draw_first(individual, defn, g, p_detect_override, p_cert_override) ==
    IF ~ compute_clinical_eligibility(individual, defn)
    THEN [exempt |-> FALSE, g |-> Random(g).g,
          draws |-> Draw(g, "detect",
                         DetectionProbability(individual.race_eth, defn,
                                              p_detect_override), <<>>).draws]
    ELSE AfterDetectionDraw(individual.race_eth, defn, p_cert_override,
             Draw(g, "detect",
                  DetectionProbability(individual.race_eth, defn, p_detect_override),
                  <<>>))

\* Returns the outcome, the generator after the call and, for inspection, the
\* draws taken in order: each with its stage, value and the threshold it was
\* compared with.
simulate_exemption_single(individual, defn, g, p_detect_override, p_cert_override) ==
    IF ~ compute_clinical_eligibility(individual, defn)
    THEN [exempt |-> FALSE, g |-> g, draws |-> <<>>]
    ELSE AfterDetectionDraw(individual.race_eth, defn, p_cert_override,
             Draw(g, "detect",
                  DetectionProbability(individual.race_eth, defn, p_detect_override),
                  <<>>))

-----------------------------------------------------------------------------
(* Floating-point results, kept exact: [n, d] is n/d, and d = 0 is NaN *)

RECURSIVE Gcd(_, _)
Gcd(a, b) == IF b = 0 THEN a ELSE Gcd(b, a % b)

Abs(a) == IF a < 0 THEN 0 - a ELSE a

\* n/d in lowest terms, for d > 0
Rat(n, d) ==
    LET g == Gcd(Abs(n), d)
    IN  [n |-> n \div g, d |-> d \div g]

NaN == [n |-> 0, d |-> 0]

IsNaN(x) == x.d = 0

\* x - y
RatSub(x, y) ==
    IF IsNaN(x) \/ IsNaN(y) THEN NaN
    ELSE Rat(x.n * y.d - y.n * x.d, x.d * y.d)

\* x / y * 100; every caller guards y > 0
RatPctOf(x, y) ==
    IF IsNaN(x) \/ IsNaN(y) THEN NaN
    ELSE Rat(x.n * y.d * 100, x.d * y.n)

\* x > 0; any comparison with NaN is False
RatPositive(x) == ~ IsNaN(x) /\ x.n > 0

\* nearest integer to n/d (d > 0), ties to even
RoundHalfEven(n, d) ==
    LET q == n \div d
        r == n - q * d
    IN  IF 2 * r < d THEN q
        ELSE IF 2 * r > d THEN q + 1
        ELSE IF q % 2 = 0 THEN q ELSE q + 1

\* round(x, 1) and round(x, 2): NaN stays NaN
Round1(x) == IF IsNaN(x) THEN NaN ELSE Rat(RoundHalfEven(x.n * 10, x.d), 10)

Round2(x) == IF IsNaN(x) THEN NaN ELSE Rat(RoundHalfEven(x.n * 100, x.d), 100)

-----------------------------------------------------------------------------
(* pandas and numpy operations used by run_monte_carlo *)

\* group keys in the order DataFrame.groupby yields them (sorted); a row whose
\* race_eth is missing ("NA") belongs to no group
GROUP_ORDER == <<"aian", "asian", "black", "hispanic", "other", "white">>

\* rows of df with race_eth = race, in df order
RECURSIVE GroupRows(_, _)
GroupRows(df, race) ==
    IF df = <<>> THEN <<>>
    ELSE IF Head(df).race_eth = race
         THEN <<Head(df)>> \o GroupRows(Tail(df), race)
         ELSE GroupRows(Tail(df), race)

\* grp.sample(n=n, random_state=42): n distinct rows of grp, picked and ordered
\* by a permutation that the fixed random_state determines
DataFrameSample(grp, n) ==
    [i \in 1..n |-> grp[((sample_rot + i - 1) % Len(grp)) + 1]]

\* a NaN weight replaced by 0
FillNa1_zero(w) == IF w = <<>> THEN 0 ELSE w[1]

\* Series.fillna(1) on one PWGTP cell
FillNa1(w) == IF w = <<>> THEN 1 ELSE w[1]

RECURSIVE SumSeq(_)
SumSeq(q) == IF q = <<>> THEN 0 ELSE Head(q) + SumSeq(Tail(q))

RECURSIVE Insert(_, _)
Insert(x, sorted) ==
    IF sorted = <<>> THEN <<x>>
    ELSE IF x <= Head(sorted) THEN <<x>> \o sorted
    ELSE <<Head(sorted)>> \o Insert(x, Tail(sorted))

RECURSIVE Sort(_)
Sort(q) == IF q = <<>> THEN <<>> ELSE Insert(Head(q), Sort(Tail(q)))

\* np.percentile(v, q) * 100 with linear interpolation, for v = nums / w and
\* q = q40 / 40 * 100 (q40 = 1 is 2.5, q40 = 39 is 97.5)
Percentile100(nums, w, q40) ==
    IF w = 0 THEN NaN
    ELSE LET sorted == Sort(nums)
             h40    == (Len(nums) - 1) * q40
             lo     == h40 \div 40
             rem    == h40 % 40
             v_lo   == sorted[lo + 1]
             v_hi   == IF lo + 2 <= Len(nums) THEN sorted[lo + 2] ELSE v_lo
         IN  Rat(100 * (40 * v_lo + rem * (v_hi - v_lo)), 40 * w)

-----------------------------------------------------------------------------
(* bias_analysis/algorithm_audit.py: run_monte_carlo *)

\* a generator kept by the module and shared by successive calls
MonteCarloGenerator_shared == mc_rng

\* line 297: every call builds its own generator from the literal seed
MonteCarloGenerator == default_rng(42)

RECURSIVE SimLoop(_, _, _, _, _, _, _, _)

\* lines 313-315: store the outcome of draw j and go on with the generator as
\* the call left it
SimStore(ind, defn, n_sim, p_detect_override, p_cert_override, j, outs, one) ==
    SimLoop(ind, defn, one.g, n_sim, p_detect_override, p_cert_override,
            j + 1, Append(outs, one.exempt))

\* lines 312-315: the outcomes j..n_sim of one eligible individual
SimLoop(ind, defn, g, n_sim, p_detect_override, p_cert_override, j, outs) ==
    IF j > n_sim THEN [outs |-> outs, g |-> g]
    ELSE SimStore(ind, defn, n_sim, p_detect_override, p_cert_override, j, outs,
                  simulate_exemption_single(ind, defn, g,
                                            p_detect_override, p_cert_override))

\* lines 308-315: one row of exempt_draws
IndividualDraws(ind, defn, g, n_sim, p_detect_override, p_cert_override) ==
    LET clin_elig == compute_clinical_eligibility(ind, defn)
    IN  IF ~ clin_elig
        THEN [outs |-> [j \in 1..n_sim |-> FALSE], g |-> g]
        ELSE SimLoop(ind, defn, g, n_sim, p_detect_override, p_cert_override, 1, <<>>)

RECURSIVE IndividualLoop(_, _, _, _, _, _, _, _, _)

\* store row i; used[i] is the number of draws the row took
IndividualStore(sample, defn, g, n_sim, p_detect_override, p_cert_override, i, exempt_draws, used, this) ==
    IndividualLoop(sample, defn, this.g, n_sim, p_detect_override, p_cert_override,
                   i + 1, Append(exempt_draws, this.outs),
                   Append(used, this.g.pos - g.pos))

\* lines 307-315: the rows i.. of exempt_draws, with the generator threaded through
IndividualLoop(sample, defn, g, n_sim, p_detect_override, p_cert_override, i, exempt_draws, used) ==
    IF i > Len(sample)
    THEN [exempt_draws |-> exempt_draws, used |-> used, g |-> g]
    ELSE IndividualStore(sample, defn, g, n_sim, p_detect_override, p_cert_override,
                         i, exempt_draws, used,
                         IndividualDraws(sample[i], defn, g, n_sim,
                                         p_detect_override, p_cert_override))

\* lines 302-303
GroupSample(grp, sample_n) ==
    LET n == Min(Len(grp), sample_n)
    IN  IF Len(grp) > n THEN DataFrameSample(grp, n) ELSE grp

\* lines 317-331: weights, exempt_by_sim and the row of the table
GroupAggregate(race, defn, n_sim, sample, loop) ==
    LET weights == [i \in 1..Len(sample) |-> FillNa1(sample[i].PWGTP)]
        wsum    == SumSeq(weights)
        \* numerators of exempt_by_sim; the common denominator is wsum
        by_sim  == [j \in 1..n_sim |->
                       SumSeq([i \in 1..Len(sample) |->
                                  IF loop.exempt_draws[i][j] THEN weights[i] ELSE 0])]
        n_elig  == Cardinality({ i \in 1..Len(sample) :
                                   compute_clinical_eligibility(sample[i], defn) })
    IN  [row |-> [state                     |-> defn.state_code,
                  race_eth                  |-> race,
                  n_individuals             |-> Len(sample),
                  clinically_eligible_pct   |-> Rat(n_elig * 100, Len(sample)),
                  simulated_exempt_pct      |->
                      IF wsum = 0 THEN NaN
                      ELSE Rat(SumSeq(by_sim) * 100, n_sim * wsum),
                  simulated_exempt_ci_lower |-> Percentile100(by_sim, wsum, 1),
                  simulated_exempt_ci_upper |-> Percentile100(by_sim, wsum, 39)],
         sample       |-> sample,
         weights      |-> weights,
         exempt_by_sim |-> by_sim,
         exempt_draws |-> loop.exempt_draws,
         used         |-> loop.used,
         g            |-> loop.g]

\* lines 305-315 on the sample of one group
GroupSimulate(race, defn, g, n_sim, p_detect_override, p_cert_override, sample) ==
    GroupAggregate(race, defn, n_sim, sample,
                   IndividualLoop(sample, defn, g, n_sim,
                                  p_detect_override, p_cert_override, 1, <<>>, <<>>))

\* lines 301-331: one race group
GroupResult(race, grp, defn, g, n_sim, p_detect_override, p_cert_override, sample_n) ==
    GroupSimulate(race, defn, g, n_sim, p_detect_override, p_cert_override,
                  GroupSample(grp, sample_n))

RECURSIVE GroupLoop(_, _, _, _, _, _, _, _, _)

\* rows.append(...) and on to the next group with the same generator
GroupStore(df, defn, n_sim, p_detect_override, p_cert_override, sample_n, k, groups, this) ==
    GroupLoop(df, defn, this.g, n_sim, p_detect_override, p_cert_override,
              sample_n, k + 1, Append(groups, this))

\* group k of the groupby, if the cohort has rows of that race
GroupVisit(df, defn, g, n_sim, p_detect_override, p_cert_override, sample_n, k, groups, grp) ==
    IF grp = <<>>
    THEN GroupLoop(df, defn, g, n_sim, p_detect_override, p_cert_override,
                   sample_n, k + 1, groups)
    ELSE GroupStore(df, defn, n_sim, p_detect_override, p_cert_override, sample_n,
                    k, groups,
                    GroupResult(GROUP_ORDER[k], grp, defn, g, n_sim,
                                p_detect_override, p_cert_override, sample_n))

\* line 300: the groups k.. in key order, sharing one generator
GroupLoop(df, defn, g, n_sim, p_detect_override, p_cert_override, sample_n, k, groups) ==
    IF k > Len(GROUP_ORDER) THEN [groups |-> groups, g |-> g]
    ELSE GroupVisit(df, defn, g, n_sim, p_detect_override, p_cert_override,
                    sample_n, k, groups, GroupRows(df, GROUP_ORDER[k]))

\* line 333: pd.DataFrame(rows); <<>> is the empty DataFrame, which has no
\* columns.  `groups` keeps the intermediate arrays of each group for
\* inspection and g is the generator when the call returns.
MonteCarloTable(loop) ==
    [table  |-> [k \in 1..Len(loop.groups) |-> loop.groups[k].row],
     groups |-> loop.groups,
     g      |-> loop.g]

run_monte_carlo(df, defn, n_sim, p_detect_override, p_cert_override, sample_n) ==
    MonteCarloTable(GroupLoop(df, defn, MonteCarloGenerator, n_sim,
                              p_detect_override, p_cert_override, sample_n, 1, <<>>))

-----------------------------------------------------------------------------
(* bias_analysis/algorithm_audit.py: decompose_racial_gap *)

\* mc[mc['race_eth'] == race]['simulated_exempt_pct'].values
RECURSIVE ExemptPctOf(_, _)
ExemptPctOf(table, race) ==
    IF table = <<>> THEN <<>>
    ELSE IF Head(table).race_eth = race
         THEN <<Head(table).simulated_exempt_pct>> \o ExemptPctOf(Tail(table), race)
         ELSE ExemptPctOf(Tail(table), race)

\* lines 360-364: white[0] - black[0], NaN when a group is missing; selecting
\* the race_eth column of the empty DataFrame raises KeyError
GapOfTable(mc) ==
    IF mc.table = <<>> THEN [raised |-> TRUE, gap |-> NaN, g |-> mc.g]
    ELSE LET black == ExemptPctOf(mc.table, "black")
             white == ExemptPctOf(mc.table, "white")
         IN  IF Len(black) = 0 \/ Len(white) = 0
             THEN [raised |-> FALSE, gap |-> NaN, g |-> mc.g]
             ELSE [raised |-> FALSE, gap |-> RatSub(white[1], black[1]), g |-> mc.g]

\* the nested function _gap
_gap(df, defn, n_sim, sample_n, p_det_override, p_cert_override) ==
    GapOfTable(run_monte_carlo(df, defn, n_sim, p_det_override, p_cert_override,
                               sample_n))

\* line 370 with the white rate of the source, whatever the dict holds now
p_det_equal_as_written == [r \in DOMAIN P_DETECT |-> P_DETECT["white"]]

\* line 370, read when the call is made
p_det_equal == [r \in DOMAIN tables.P_DETECT |-> tables.P_DETECT["white"]]

\* line 374
p_cert_equal == [r \in DOMAIN tables.P_CERT |-> tables.P_CERT["white"]]

\* x if observed_gap > 0 else np.nan, with x = round(num / observed_gap * 100, 1)
PctOfTotal(num, observed_gap) ==
    IF RatPositive(observed_gap) THEN Round1(RatPctOf(num, observed_gap)) ELSE NaN

\* lines 380-389: the returned dict; the first pass raises on an empty table
DecompositionReport(defn, observed, no_visibility, no_cert, algorithm_only) ==
    IF observed.raised
    THEN [raised |-> TRUE, error |-> "KeyError", g |-> observed.g]
    ELSE [raised |-> FALSE,
          g      |-> algorithm_only.g,
          gaps   |-> <<observed.gap, no_visibility.gap, no_cert.gap, algorithm_only.gap>>,
          value  |->
            [state                      |-> defn.state_code,
             observed_gap_pp            |-> Round2(observed.gap),
             algorithm_gap_pp           |-> Round2(algorithm_only.gap),
             visibility_channel_pp      |->
                 Round2(RatSub(observed.gap, no_visibility.gap)),
             documentation_channel_pp   |->
                 Round2(RatSub(observed.gap, no_cert.gap)),
             algorithm_pct_of_total     |->
                 PctOfTotal(algorithm_only.gap, observed.gap),
             visibility_pct_of_total    |->
                 PctOfTotal(RatSub(observed.gap, no_visibility.gap), observed.gap),
             documentation_pct_of_total |->
                 PctOfTotal(RatSub(observed.gap, no_cert.gap), observed.gap)]]

\* the four passes with the overrides of the second and third exchanged
decompose_racial_gap_exchanged(df, defn, n_sim, sample_n) ==
    DecompositionReport(defn,
        _gap(df, defn, n_sim, sample_n, <<>>, <<>>),
        _gap(df, defn, n_sim, sample_n, <<>>, <<p_cert_equal>>),
        _gap(df, defn, n_sim, sample_n, <<p_det_equal>>, <<>>),
        _gap(df, defn, n_sim, sample_n, <<p_det_equal>>, <<p_cert_equal>>))

\* lines 366-378: the four passes
decompose_racial_gap(df, defn, n_sim, sample_n) ==
    DecompositionReport(defn,
        _gap(df, defn, n_sim, sample_n, <<>>, <<>>),
        _gap(df, defn, n_sim, sample_n, <<p_det_equal>>, <<>>),
        _gap(df, defn, n_sim, sample_n, <<>>, <<p_cert_equal>>),
        _gap(df, defn, n_sim, sample_n, <<p_det_equal>>, <<p_cert_equal>>))

-----------------------------------------------------------------------------
(* bias_analysis/algorithm_audit.py: run_counterfactual *)

\* x < y for two numbers that are not NaN
RatLess(x, y) == x.n * y.d < y.n * x.d

\* lines 416-417: every catalog state but the reference, in catalog order
DefaultTargets(reference_state_code) ==
    LET codes == [i \in DOMAIN STATE_FRAILTY_DEFINITIONS |->
                     STATE_FRAILTY_DEFINITIONS[i].state_code]
        NotReference(c) == c # reference_state_code
    IN  SelectSeq(codes, NotReference)

\* the row with the reducible gap taken as counterfactual minus actual
CounterfactualRow_reversed(state_code, reference_state_code, actual_gap, cf_gap) ==
    [state                 |-> state_code,
     actual_gap_pp         |-> Round2(actual_gap),
     counterfactual_gap_pp |-> Round2(cf_gap),
     reducible_gap_pp      |-> Round2(RatSub(cf_gap, actual_gap)),
     pct_gap_reducible     |->
         IF RatPositive(actual_gap)
         THEN Round1(RatPctOf(RatSub(cf_gap, actual_gap), actual_gap))
         ELSE NaN,
     reference_algorithm   |-> reference_state_code]

\* lines 441-451: the row of one target state
CounterfactualRow(state_code, reference_state_code, actual_gap, cf_gap) ==
    [state                 |-> state_code,
     actual_gap_pp         |-> Round2(actual_gap),
     counterfactual_gap_pp |-> Round2(cf_gap),
     reducible_gap_pp      |-> Round2(RatSub(actual_gap, cf_gap)),
     pct_gap_reducible     |->
         IF RatPositive(actual_gap)
         THEN Round1(RatPctOf(RatSub(actual_gap, cf_gap), actual_gap))
         ELSE NaN,
     reference_algorithm   |-> reference_state_code]

\* DataFrame.sort_values('reducible_gap_pp', ascending=False): descending,
\* rows of equal value in their original order, NaN last
RECURSIVE InsertDescending(_, _)
InsertDescending(row, sorted) ==
    IF sorted = <<>> THEN <<row>>
    ELSE IF \/ IsNaN(row.reducible_gap_pp)
            \/ /\ ~ IsNaN(Head(sorted).reducible_gap_pp)
               /\ ~ RatLess(Head(sorted).reducible_gap_pp, row.reducible_gap_pp)
         THEN <<Head(sorted)>> \o InsertDescending(row, Tail(sorted))
         ELSE <<row>> \o sorted

RECURSIVE SortDescending(_, _)
SortDescending(rows, k) ==
    IF k = 0 THEN <<>>
    ELSE InsertDescending(rows[k], SortDescending(rows, k - 1))

\* line 454: pd.DataFrame(rows) has no columns when rows is empty, and sorting
\* it by a column raises KeyError
CounterfactualTable(loop) ==
    IF loop.raised THEN loop
    ELSE IF loop.rows = <<>>
         THEN [raised |-> TRUE, error |-> "KeyError", g |-> loop.g]
         ELSE [raised |-> FALSE, table |-> SortDescending(loop.rows, Len(loop.rows)),
               visited |-> loop.visited, g |-> loop.g]

RECURSIVE TargetLoop(_, _, _, _, _, _, _, _, _, _)

\* lines 429-451 of one target found in the catalog: selecting the race_eth
\* column of an empty table raises KeyError; a target without a black or a
\* white group in either table is skipped
TargetVisit(df, reference_state_code, ref_defn, target_states, n_sim, sample_n, k, rows, visited, mc_actual, mc_cf) ==
    IF mc_actual.table = <<>> \/ mc_cf.table = <<>>
    THEN [raised |-> TRUE, error |-> "KeyError", g |-> mc_actual.g]
    ELSE IF \/ ExemptPctOf(mc_actual.table, "black") = <<>>
            \/ ExemptPctOf(mc_actual.table, "white") = <<>>
            \/ ExemptPctOf(mc_cf.table, "black") = <<>>
            \/ ExemptPctOf(mc_cf.table, "white") = <<>>
         THEN TargetLoop(df, reference_state_code, ref_defn, target_states, n_sim,
                         sample_n, k + 1, rows, Append(visited, target_states[k]),
                         mc_cf.g)
         ELSE TargetLoop(df, reference_state_code, ref_defn, target_states, n_sim,
                         sample_n, k + 1,
                         Append(rows,
                                CounterfactualRow(target_states[k], reference_state_code,
                                    RatSub(ExemptPctOf(mc_actual.table, "white")[1],
                                           ExemptPctOf(mc_actual.table, "black")[1]),
                                    RatSub(ExemptPctOf(mc_cf.table, "white")[1],
                                           ExemptPctOf(mc_cf.table, "black")[1]))),
                         Append(visited, target_states[k]),
                         mc_cf.g)

\* lines 420-451 with the second run made under the target's own definition
TargetLoop_target_definition(df, reference_state_code, ref_defn, target_states, n_sim, sample_n, k, rows, visited, g) ==
    IF k > Len(target_states)
    THEN [raised |-> FALSE, rows |-> rows, visited |-> visited, g |-> g]
    ELSE IF STATE_FRAILTY_BY_CODE(target_states[k]) = <<>>
         THEN TargetLoop(df, reference_state_code, ref_defn, target_states, n_sim,
                         sample_n, k + 1, rows, visited, g)
         ELSE TargetVisit(df, reference_state_code, ref_defn, target_states, n_sim,
                          sample_n, k, rows, visited,
                          run_monte_carlo(df, STATE_FRAILTY_BY_CODE(target_states[k])[1],
                                          n_sim, <<>>, <<>>, sample_n),
                          run_monte_carlo(df, STATE_FRAILTY_BY_CODE(target_states[k])[1],
                                          n_sim, <<>>, <<>>, sample_n))

\* lines 420-451: the targets k.. ; `visited` lists the targets for which the
\* two Monte Carlo runs were made
TargetLoop(df, reference_state_code, ref_defn, target_states, n_sim, sample_n, k, rows, visited, g) ==
    IF k > Len(target_states)
    THEN [raised |-> FALSE, rows |-> rows, visited |-> visited, g |-> g]
    ELSE IF STATE_FRAILTY_BY_CODE(target_states[k]) = <<>>
         THEN TargetLoop(df, reference_state_code, ref_defn, target_states, n_sim,
                         sample_n, k + 1, rows, visited, g)
         ELSE TargetVisit(df, reference_state_code, ref_defn, target_states, n_sim,
                          sample_n, k, rows, visited,
                          run_monte_carlo(df, STATE_FRAILTY_BY_CODE(target_states[k])[1],
                                          n_sim, <<>>, <<>>, sample_n),
                          run_monte_carlo(df, ref_defn, n_sim, <<>>, <<>>, sample_n))

\* lines 392-454; target_states is <<>> for None and <<list>> otherwise, and g
\* is the generator of the last Monte Carlo run (the caller's when none ran)
run_counterfactual(df, reference_state_code, target_states, n_sim, sample_n, g) ==
    IF STATE_FRAILTY_BY_CODE(reference_state_code) = <<>>
    THEN [raised |-> TRUE, error |-> "ValueError", g |-> g]
    ELSE CounterfactualTable(
             TargetLoop(df, reference_state_code,
                        STATE_FRAILTY_BY_CODE(reference_state_code)[1],
                        IF target_states = <<>>
                        THEN DefaultTargets(reference_state_code)
                        ELSE target_states[1],
                        n_sim, sample_n, 1, <<>>, <<>>, g))

-----------------------------------------------------------------------------
(* bias_analysis/improved_algorithm.py *)

IMPROVED_ICD10_LIST ==
    << <<"F","2","0","-","F","2","9">>,
       <<"F","3","0","-","F","3","9">>,
       <<"F","4","0","-","F","4","8">>,
       <<"F","1","0","-","F","1","9">>,
       <<"C","0","0","-","D","4","9">>,
       <<"G","1","0","-","G","9","9">>,
       <<"M","0","0","-","M","9","9">>,
       <<"I","0","0","-","I","9","9">>,
       <<"J","0","0","-","J","9","9">>,
       <<"N","0","0","-","N","9","9">>,
       <<"E","0","0","-","E","9","0">>,
       <<"Z","5","9">>,
       <<"Z","6","0">> >>

\* in hundredths
DETECTION_GAP_CLOSURE_FRACTION == 40

\* in thousandths
DETECTION_CEILING == 980

\* a flat bonus of 10.4 points for every race, capped at the ceiling
GapClosure_flat_bonus(base) ==
    [race \in DOMAIN base |-> Min(base[race] + 104, DETECTION_CEILING)]

\* lines 117-120 on the table `base`, whose entries have two decimals as
\* those of P_DETECT have: the sum then has three and round(.., 4) keeps it
GapClosure(base) ==
    [race \in DOMAIN base |->
        LET p_base == base[race]
            room   == DETECTION_CEILING - p_base
        IN  p_base + (DETECTION_GAP_CLOSURE_FRACTION * room) \div 100]

compute_improved_detection_probs == GapClosure(P_DETECT)

P_DETECT_IMPROVED == compute_improved_detection_probs

\* the improved definition with ex parte set to FULL
create_improved_definition_full_ex_parte(base_defn) ==
    [base_defn EXCEPT !.recognized_conditions = IMPROVED_ICD10_LIST,
                      !.adl_threshold = 1,
                      !.requires_physician_cert = FALSE,
                      !.ex_parte_determination = "FULL"]

\* lines 128-182: the field values of the returned definition
create_improved_definition(base_defn) ==
    [base_defn EXCEPT !.recognized_conditions = IMPROVED_ICD10_LIST,
                      !.adl_threshold = 1,
                      !.requires_physician_cert = FALSE]

-----------------------------------------------------------------------------
(* bias_analysis/improved_algorithm.py: the simulations of improved
   definitions.  Every result carries `passes`, the run_monte_carlo calls made
   in call order: the definition passed, whether it is the synthesized one,
   the two overrides and the table returned. *)

\* x + y
RatAdd(x, y) ==
    IF IsNaN(x) \/ IsNaN(y) THEN NaN
    ELSE Rat(x.n * y.d + y.n * x.d, x.d * y.d)

\* sum and count of the entries of a column that are not NaN
RECURSIVE ColumnSum(_, _, _)
ColumnSum(values, k, acc) ==
    IF k > Len(values) THEN acc
    ELSE IF IsNaN(values[k]) THEN ColumnSum(values, k + 1, acc)
    ELSE ColumnSum(values, k + 1,
                   [sum |-> RatAdd(acc.sum, values[k]), count |-> acc.count + 1])

\* Series.mean(): NaN entries are skipped, the mean of no entry is NaN
SeriesMean(values) ==
    LET acc == ColumnSum(values, 1, [sum |-> Rat(0, 1), count |-> 0])
    IN  IF acc.count = 0 THEN NaN ELSE Rat(acc.sum.n, acc.sum.d * acc.count)

\* mc['simulated_exempt_pct'].mean()
SimulatedExemptMean(table) ==
    SeriesMean([k \in DOMAIN table |-> table[k].simulated_exempt_pct])

\* max(0, x): x when x > 0 is True, 0 otherwise (also for NaN)
Max0(x) == IF RatPositive(x) THEN x ELSE Rat(0, 1)

IsBlackOrWhite(row) == row.race_eth \in {"black", "white"}

\* acs_df[acs_df['race_eth'].isin(['black', 'white'])]
BlackWhiteRows(acs_df) == SelectSeq(acs_df, IsBlackOrWhite)

\* bw_df['DIS_bin'].mean() * 100
TrueDisabilityPct(bw_df) ==
    IF bw_df = <<>> THEN NaN
    ELSE Rat(100 * SumSeq([k \in DOMAIN bw_df |-> bw_df[k].DIS_bin]), Len(bw_df))

\* the record of one run_monte_carlo call
PassRecord(mc, defn, synthesized, p_detect_override, p_cert_override) ==
    [table             |-> mc.table,
     defn              |-> defn,
     synthesized       |-> synthesized,
     p_detect_override |-> p_detect_override,
     p_cert_override   |-> p_cert_override]

MonteCarloPass(df, defn, synthesized, n_sim, p_detect_override, p_cert_override, sample_n) ==
    PassRecord(run_monte_carlo(df, defn, n_sim, p_detect_override, p_cert_override, sample_n),
               defn, synthesized, p_detect_override, p_cert_override)

\* line 375: perfect detection for every race
p_det_max == [r \in DOMAIN P_DETECT |-> 980]

\* lines 366-416: the channels and the returned dict
UnderidentificationReport(defn, true_dis, sq_exempt, expanded_exempt, expanded_detected_exempt) ==
    LET total_underid      == RatSub(true_dis, sq_exempt)
        design_channel     == RatSub(expanded_exempt, sq_exempt)
        visibility_channel == RatSub(expanded_detected_exempt, expanded_exempt)
        doc_channel        ==
            RatSub(RatSub(RatSub(total_underid, design_channel), visibility_channel),
                   RatSub(true_dis, expanded_detected_exempt))
    IN  [state                        |-> defn.state_code,
         true_disability_pct          |-> Round2(true_dis),
         sq_identified_pct            |-> Round2(sq_exempt),
         total_underidentification_pp |-> Round2(total_underid),
         design_channel_pp            |-> Round2(Max0(design_channel)),
         visibility_channel_pp        |-> Round2(Max0(visibility_channel)),
         documentation_channel_pp     |-> Round2(Max0(doc_channel)),
         improved_identified_pct      |-> Round2(expanded_detected_exempt),
         residual_underid_pp          |->
             Round2(Max0(RatSub(true_dis, expanded_detected_exempt)))]

\* lines 364-416, after the status quo pass returned a table with rows
UnderidentificationResult(bw_df, defn, mc_full, mc_perfect_detect, mc_expanded, mc_expanded_detected) ==
    [raised |-> FALSE,
     report |-> UnderidentificationReport(
                    defn, TrueDisabilityPct(bw_df),
                    SimulatedExemptMean(mc_full.table),
                    SimulatedExemptMean(mc_expanded.table),
                    SimulatedExemptMean(mc_expanded_detected.table)),
     passes |-> << mc_full, mc_perfect_detect, mc_expanded, mc_expanded_detected >>]

\* lines 364-416 with the last pass given the improved detection map
AfterStatusQuoPass_improved_detection(bw_df, defn, improved_defn, n_sim, sample_n, mc_full) ==
    IF mc_full.table = <<>>
    THEN [raised |-> TRUE, error |-> "KeyError", passes |-> << mc_full >>]
    ELSE UnderidentificationResult(
             bw_df, defn, mc_full,
             MonteCarloPass(bw_df, defn, FALSE, n_sim, << p_det_max >>, <<>>, sample_n),
             MonteCarloPass(bw_df, improved_defn, TRUE, n_sim,
                            << P_DETECT >>, << P_CERT >>, sample_n),
             MonteCarloPass(bw_df, improved_defn, TRUE, n_sim,
                            << P_DETECT_IMPROVED >>, <<>>, sample_n))

\* line 364: mc_full['simulated_exempt_pct'] raises KeyError on the DataFrame
\* without columns that run_monte_carlo returns for a cohort without groups
AfterStatusQuoPass(bw_df, defn, improved_defn, n_sim, sample_n, mc_full) ==
    IF mc_full.table = <<>>
    THEN [raised |-> TRUE, error |-> "KeyError", passes |-> << mc_full >>]
    ELSE UnderidentificationResult(
             bw_df, defn, mc_full,
             MonteCarloPass(bw_df, defn, FALSE, n_sim, << p_det_max >>, <<>>, sample_n),
             MonteCarloPass(bw_df, improved_defn, TRUE, n_sim,
                            << P_DETECT >>, << P_CERT >>, sample_n),
             MonteCarloPass(bw_df, improved_defn, TRUE, n_sim, <<>>, <<>>, sample_n))

UnderidentificationOf(bw_df, defn, n_sim, sample_n) ==
    AfterStatusQuoPass(bw_df, defn, create_improved_definition(defn), n_sim, sample_n,
                       MonteCarloPass(bw_df, defn, FALSE, n_sim, <<>>, <<>>, sample_n))

decompose_underidentification(acs_df, defn, n_sim, sample_n) ==
    UnderidentificationOf(BlackWhiteRows(acs_df), defn, n_sim, sample_n)

\* the catalog codes in catalog order
CatalogCodeList ==
    [i \in DOMAIN STATE_FRAILTY_DEFINITIONS |-> STATE_FRAILTY_DEFINITIONS[i].state_code]

\* lines 258-264: the columns added to the table of one state
ImprovedColumns(base_defn, improved_defn) ==
    [algorithm_type   |-> "improved",
     stringency_score |-> base_defn.stringency_score,
     n_icd10_families |-> Len(improved_defn.recognized_conditions),
     has_hie          |-> 1,
     full_ex_parte    |-> 1,
     requires_cert    |-> 0,
     adl_threshold    |-> 1]

RECURSIVE ImprovedLoop(_, _, _, _, _, _, _)

\* lines 254-266 for one state of the catalog; the mean of line 266 raises
\* KeyError when the table has no rows
ImprovedStore(acs_df, states, n_sim, sample_n, k, all_results, passes, base_defn, improved_defn, mc) ==
    IF mc.table = <<>>
    THEN [raised |-> TRUE, error |-> "KeyError", passes |-> Append(passes, mc)]
    ELSE ImprovedLoop(acs_df, states, n_sim, sample_n, k + 1,
                      all_results \o [i \in DOMAIN mc.table |->
                                         mc.table[i] @@ ImprovedColumns(base_defn, improved_defn)],
                      Append(passes, mc))

ImprovedVisit(acs_df, states, n_sim, sample_n, k, all_results, passes, base_defn, improved_defn) ==
    ImprovedStore(acs_df, states, n_sim, sample_n, k, all_results, passes,
                  base_defn, improved_defn,
                  MonteCarloPass(acs_df, improved_defn, TRUE, n_sim,
                                 << P_DETECT_IMPROVED >>, <<>>, sample_n))

\* lines 244-269: all_results is the concatenation so far
ImprovedLoop(acs_df, states, n_sim, sample_n, k, all_results, passes) ==
    IF k > Len(states)
    THEN [raised |-> FALSE, value |-> all_results, passes |-> passes]
    ELSE IF STATE_FRAILTY_BY_CODE(states[k]) = <<>>
    THEN ImprovedLoop(acs_df, states, n_sim, sample_n, k + 1, all_results, passes)
    ELSE ImprovedVisit(acs_df, states, n_sim, sample_n, k, all_results, passes,
                       STATE_FRAILTY_BY_CODE(states[k])[1],
                       create_improved_definition(STATE_FRAILTY_BY_CODE(states[k])[1]))

\* states is <<>> for None and <<list>> otherwise
run_improved_simulation(acs_df, states, n_sim, sample_n) ==
    ImprovedLoop(acs_df, IF states = <<>> THEN CatalogCodeList ELSE states[1],
                 n_sim, sample_n, 1, <<>>, <<>>)

\* algorithm_audit.py lines 120-121, in thousandths
P_DETECT_SD == 60

P_CERT_SD == 50

\* lines 433-439, in dict order
Scenarios ==
    << [name |-> "base", p_det |-> P_DETECT, p_cert |-> P_CERT],
       [name   |-> "high_detect",
        p_det  |-> [r \in DOMAIN P_DETECT |-> Min(P_DETECT[r] + P_DETECT_SD, 980)],
        p_cert |-> P_CERT],
       [name   |-> "low_detect",
        p_det  |-> [r \in DOMAIN P_DETECT |->
                       IF P_DETECT[r] - P_DETECT_SD > 100
                       THEN P_DETECT[r] - P_DETECT_SD ELSE 100],
        p_cert |-> P_CERT],
       [name   |-> "high_cert",
        p_det  |-> P_DETECT,
        p_cert |-> [r \in DOMAIN P_CERT |-> Min(P_CERT[r] + P_CERT_SD, 980)]],
       [name   |-> "low_cert",
        p_det  |-> P_DETECT,
        p_cert |-> [r \in DOMAIN P_CERT |->
                       IF P_CERT[r] - P_CERT_SD > 100
                       THEN P_CERT[r] - P_CERT_SD ELSE 100]] >>

\* np.mean, np.min and np.max of a non-empty list: NaN if any entry is NaN
RECURSIVE GainFold(_, _, _)
GainFold(gains, k, acc) ==
    IF k > Len(gains) THEN acc
    ELSE GainFold(gains, k + 1,
                  [sum |-> RatAdd(acc.sum, gains[k]),
                   min |-> IF IsNaN(acc.min) \/ IsNaN(gains[k]) THEN NaN
                           ELSE IF RatLess(gains[k], acc.min) THEN gains[k] ELSE acc.min,
                   max |-> IF IsNaN(acc.max) \/ IsNaN(gains[k]) THEN NaN
                           ELSE IF RatLess(acc.max, gains[k]) THEN gains[k] ELSE acc.max])

\* lines 461-466 for a non-empty list of gains
ScenarioSummary(name, gains) ==
    LET acc == GainFold(gains, 2, [sum |-> gains[1], min |-> gains[1], max |-> gains[1]])
    IN  [scenario                 |-> name,
         mean_sensitivity_gain_pp |->
             Round2(IF IsNaN(acc.sum) THEN NaN
                    ELSE Rat(acc.sum.n, acc.sum.d * Len(gains))),
         min_gain_pp              |-> Round2(acc.min),
         max_gain_pp              |-> Round2(acc.max),
         all_positive             |-> \A k \in DOMAIN gains : RatPositive(gains[k])]

RECURSIVE SensitivityStateLoop(_, _, _, _, _, _, _, _)

\* lines 457-459: the means raise KeyError on a table without rows
SensitivityStore(bw_df, states, n_sim, sample_n, scenario, k, gains, passes, mc_sq, mc_imp) ==
    IF mc_sq.table = <<>>
    THEN [raised |-> TRUE, error |-> "KeyError", passes |-> passes \o << mc_sq, mc_imp >>]
    ELSE SensitivityStateLoop(bw_df, states, n_sim, sample_n, scenario, k + 1,
                              Append(gains, RatSub(SimulatedExemptMean(mc_imp.table),
                                                   SimulatedExemptMean(mc_sq.table))),
                              passes \o << mc_sq, mc_imp >>)

\* lines 449-455: the two passes of one state
SensitivityVisit(bw_df, states, n_sim, sample_n, scenario, k, gains, passes, defn, improved_defn) ==
    SensitivityStore(bw_df, states, n_sim, sample_n, scenario, k, gains, passes,
                     MonteCarloPass(bw_df, defn, FALSE, n_sim,
                                    << scenario.p_det >>, << scenario.p_cert >>, sample_n),
                     MonteCarloPass(bw_df, improved_defn, TRUE, n_sim, <<>>, <<>>, sample_n))

\* lines 445-460: the states of one scenario
SensitivityStateLoop(bw_df, states, n_sim, sample_n, scenario, k, gains, passes) ==
    IF k > Len(states)
    THEN [raised |-> FALSE, gains |-> gains, passes |-> passes]
    ELSE IF STATE_FRAILTY_BY_CODE(states[k]) = <<>>
    THEN SensitivityStateLoop(bw_df, states, n_sim, sample_n, scenario, k + 1, gains, passes)
    ELSE SensitivityVisit(bw_df, states, n_sim, sample_n, scenario, k, gains, passes,
                          STATE_FRAILTY_BY_CODE(states[k])[1],
                          create_improved_definition(STATE_FRAILTY_BY_CODE(states[k])[1]))

RECURSIVE ScenarioLoop(_, _, _, _, _, _, _)

\* lines 461-466: np.min of an empty list raises ValueError
ScenarioStore(bw_df, states, n_sim, sample_n, j, results, inner) ==
    IF inner.raised THEN inner
    ELSE IF inner.gains = <<>>
    THEN [raised |-> TRUE, error |-> "ValueError", passes |-> inner.passes]
    ELSE ScenarioLoop(bw_df, states, n_sim, sample_n, j + 1,
                      Append(results, ScenarioSummary(Scenarios[j].name, inner.gains)),
                      inner.passes)

\* lines 442-468: the scenarios in dict order
ScenarioLoop(bw_df, states, n_sim, sample_n, j, results, passes) ==
    IF j > Len(Scenarios)
    THEN [raised |-> FALSE, value |-> results, passes |-> passes]
    ELSE ScenarioStore(bw_df, states, n_sim, sample_n, j, results,
                       SensitivityStateLoop(bw_df, states, n_sim, sample_n,
                                            Scenarios[j], 1, <<>>, passes))

\* states is <<>> for None (the first eight states of the catalog) and
\* <<list>> otherwise
run_sensitivity_analysis(acs_df, states, n_sim, sample_n) ==
    ScenarioLoop(BlackWhiteRows(acs_df),
                 IF states = <<>> THEN SubSeq(CatalogCodeList, 1, 8) ELSE states[1],
                 n_sim, sample_n, 1, <<>>, <<>>)

-----------------------------------------------------------------------------
(* Python objects of improved_algorithm.py: heap.lists[a] is the content of
   the list object at address a, heap.objs[i] the FrailtyDefinition object i,
   whose recognized_conditions attribute holds the address of its list *)

\* address of the module-level list IMPROVED_ICD10_LIST
IMPROVED_ICD10_LIST_ADDRESS == 1

\* the heap after import, with the catalog definitions `bases` under study:
\* definition k is object k and owns the list at address k + 1
InitialHeap(bases) ==
    [lists |-> <<IMPROVED_ICD10_LIST>>
               \o [k \in DOMAIN bases |-> bases[k].recognized_conditions],
     objs  |-> [k \in DOMAIN bases |->
                   [bases[k] EXCEPT !.recognized_conditions = k + 1]]]

\* list.copy(): a new list object with the same elements (strings, immutable)
ListCopy(h, a) ==
    [heap |-> [h EXCEPT !.lists = Append(@, h.lists[a])],
     a    |-> Len(h.lists) + 1]

\* copy.deepcopy of a definition: a new object with a new list
DeepCopyStore(h, i, copied) ==
    [heap |-> [copied.heap EXCEPT
                  !.objs = Append(@, [h.objs[i] EXCEPT !.recognized_conditions = copied.a])],
     i    |-> Len(h.objs) + 1]

deepcopy(h, i) == DeepCopyStore(h, i, ListCopy(h, h.objs[i].recognized_conditions))

\* the assignments of lines 163, 166 and 174 on the object `improved`
AssignImproved(improved, list) ==
    [heap |-> [list.heap EXCEPT
                  !.objs[improved.i].recognized_conditions = list.a,
                  !.objs[improved.i].adl_threshold = 1,
                  !.objs[improved.i].requires_physician_cert = FALSE],
     i    |-> improved.i]

\* line 163 without .copy(): the attribute refers to the module-level list
ImprovedList_shared(improved) ==
    [heap |-> improved.heap, a |-> IMPROVED_ICD10_LIST_ADDRESS]

\* line 163: IMPROVED_ICD10_LIST.copy()
ImprovedList(improved) == ListCopy(improved.heap, IMPROVED_ICD10_LIST_ADDRESS)

\* lines 160-182 on the objects
AfterDeepCopy(improved) == AssignImproved(improved, ImprovedList(improved))

\* create_improved_definition on the object i: the heap after the call and the
\* object returned
CreateImprovedObject(h, i) == AfterDeepCopy(deepcopy(h, i))

\* the definition held by object i, with its list read from the heap
Deref(h, i) ==
    [h.objs[i] EXCEPT !.recognized_conditions = h.lists[h.objs[i].recognized_conditions]]

-----------------------------------------------------------------------------
(* Inputs explored *)

\* one row of the cohort table
Row(race, w, dphy, drem, ddrs, dout, dear, deye, dis) ==
    [race_eth |-> race, PWGTP |-> w,
     DPHY_bin |-> dphy, DREM_bin |-> drem, DDRS_bin |-> ddrs, DOUT_bin |-> dout,
     DEAR_bin |-> dear, DEYE_bin |-> deye, DIS_bin |-> dis]

\* every disability profile
AllProfiles ==
    { Row("white", <<1>>, a, b, c, d, e, f, g) :
        a \in 0..1, b \in 0..1, c \in 0..1, d \in 0..1,
        e \in 0..1, f \in 0..1, g \in 0..1 }

\* a definition that is not in the catalog
TestDefinition(code, adl, cert, mode, lag, hie, mds, conds) ==
    [state_code |-> code,
     adl_threshold |-> adl,
     requires_prior_auth_record |-> FALSE,
     requires_physician_cert |-> cert,
     recognized_conditions |-> conds,
     ex_parte_determination |-> mode,
     claims_lag |-> lag,
     uses_ehr_data |-> FALSE,
     uses_hie |-> hie,
     uses_mds_data |-> mds,
     uses_claims_frailty_index |-> FALSE,
     stringency_score |-> 50]

\* nine families, none of which meets a prefix of the domain table
NineUnrelated ==
    << <<"C","0","0","-","D","4","9">>, <<"J","0","0","-","J","9","9">>,
       <<"N","0","0","-","N","9","9">>, <<"K","0","0","-","K","9","5">>,
       <<"L","0","0","-","L","9","9">>, <<"A","0","0","-","B","9","9">>,
       <<"D","5","0","-","D","8","9">>, <<"O","0","0","-","O","9","A">>,
       <<"Q","0","0","-","Q","9","9">> >>

TenUnrelated == Append(NineUnrelated, <<"R","0","0","-","R","9","9">>)

\* one-letter families, and families written with a trailing wildcard marker
OneLetter == << <<"F">>, <<"H">> >>

Wildcards == << <<"G","3","-">>, <<"E","1","0","-","-">>, <<"H","6","1">> >>

TestDefinitions ==
    { TestDefinition("T1", 1, FALSE, "PARTIAL", "MEDIUM", FALSE, FALSE, OneLetter),
      TestDefinition("T2", 1, FALSE, "PARTIAL", "MEDIUM", FALSE, FALSE, Wildcards),
      TestDefinition("T3", 1, FALSE, "PARTIAL", "MEDIUM", FALSE, FALSE, NineUnrelated),
      TestDefinition("T4", 1, FALSE, "PARTIAL", "MEDIUM", FALSE, FALSE, TenUnrelated),
      TestDefinition("T5", 3, TRUE,  "ACTIVE",  "LONG",   FALSE, FALSE, IMPROVED_ICD10_LIST),
      TestDefinition("T6", 2, FALSE, "FULL",    "SHORT",  TRUE,  TRUE,  TenUnrelated),
      TestDefinition("T7", 1, TRUE,  "FULL",    "SHORT",  TRUE,  TRUE,  IMPROVED_ICD10_LIST),
      TestDefinition("T8", 1, FALSE, "ACTIVE",  "LONG",   FALSE, FALSE, <<>>) }

Catalog == { STATE_FRAILTY_DEFINITIONS[i] : i \in DOMAIN STATE_FRAILTY_DEFINITIONS }

\* Optional[Dict] values handed in as detection overrides
DetectOverrides ==
    { <<>>,
      << [r \in DOMAIN P_DETECT |-> P_DETECT["white"]] >>,
      << P_DETECT_IMPROVED >>,
      << [r \in {"white"} |-> 950] >>,
      << [r \in {} |-> 0] >> }

\* Optional[Dict] values handed in as certification overrides
CertOverrides ==
    { <<>>,
      << [r \in DOMAIN P_CERT |-> P_CERT["white"]] >>,
      << [r \in {"black"} |-> 900] >> }

NoResult == [op |-> "none"]

-----------------------------------------------------------------------------
(* Operations *)

ComputeClinicalEligibility ==
    /\ res' = [op       |-> "compute_clinical_eligibility",
               eligible |-> compute_clinical_eligibility(args.individual, args.defn)]
    /\ UNCHANGED <<stream, sample_rot, args, rng, mc_rng, first_out, heap, tables>>

\* what a direct call of simulate_exemption_single leaves behind
SimulateReturns(r) ==
    /\ res' = [op         |-> "simulate_exemption_single",
               exempt     |-> r.exempt,
               draws      |-> r.draws,
               rng_before |-> rng]
    /\ rng' = r.g

SimulateExemptionSingle ==
    /\ rng.pos + 3 <= MaxDraws
    /\ SimulateReturns(simulate_exemption_single(args.individual, args.defn, rng,
                                                 args.p_detect_override,
                                                 args.p_cert_override))
    /\ UNCHANGED <<stream, sample_rot, args, mc_rng, first_out, heap, tables>>

\* what a run_monte_carlo call on the arguments under study leaves behind
MonteCarloReturns(r) ==
    /\ res' = [op        |-> "run_monte_carlo",
               table     |-> r.table,
               groups    |-> r.groups,
               repeated  |-> first_out # <<>>,
               left_over |-> mc_rng.pos > 0]
    /\ mc_rng' = r.g
    /\ first_out' = IF first_out = <<>> THEN <<r.table>> ELSE first_out

RunMonteCarlo ==
    /\ MonteCarloReturns(run_monte_carlo(args.df, args.defn, args.n_sim,
                                         args.p_detect_override, args.p_cert_override,
                                         args.sample_n))
    /\ UNCHANGED <<stream, sample_rot, args, rng, heap, tables>>

\* the table and the rows of exempt_draws of every group of one call
RunSummary(mc) ==
    [table    |-> mc.table,
     outcomes |-> [k \in DOMAIN mc.groups |-> mc.groups[k].exempt_draws]]

\* what two run_monte_carlo calls that differ in p_cert_override leave behind
TwoRunsReturn(first, second) ==
    res' = [op |-> "run_monte_carlo_twice", first |-> first, second |-> second]

\* run_monte_carlo called twice on the same cohort, definition, n_sim and
\* detection override, with args.p_cert_override and then with
\* args.p_cert_second
RunMonteCarloTwice ==
    /\ TwoRunsReturn(
           RunSummary(run_monte_carlo(args.df, args.defn, args.n_sim,
                                      args.p_detect_override, args.p_cert_override,
                                      args.sample_n)),
           RunSummary(run_monte_carlo(args.df, args.defn, args.n_sim,
                                      args.p_detect_override, args.p_cert_second,
                                      args.sample_n)))
    /\ UNCHANGED <<stream, sample_rot, args, rng, mc_rng, first_out, heap, tables>>

\* what a run_monte_carlo call of another analysis leaves behind
ElsewhereReturns(code, r) ==
    /\ res' = [op |-> "run_monte_carlo_elsewhere", state |-> code]
    /\ mc_rng' = r.g

\* run_monte_carlo called by some other analysis of the same process, on the
\* same cohort but with another state's definition
RunMonteCarloElsewhere ==
    /\ \E code \in {"TX", "CA"} :
          ElsewhereReturns(code,
              run_monte_carlo(args.df, STATE_FRAILTY_BY_CODE(code)[1], args.n_sim,
                              <<>>, <<>>, args.sample_n))
    /\ UNCHANGED <<stream, sample_rot, args, rng, first_out, heap, tables>>

\* what a decompose_racial_gap call leaves behind
DecomposeReturns(r) ==
    /\ res' = IF r.raised
              THEN [op |-> "decompose_racial_gap", raised |-> TRUE, error |-> r.error]
              ELSE [op |-> "decompose_racial_gap", raised |-> FALSE,
                    value |-> r.value, gaps |-> r.gaps]
    /\ mc_rng' = r.g

\* decompose_racial_gap on the cohort and definition under study; its four
\* passes each go through run_monte_carlo (the generator seeded with 99 at
\* line 354 is never used)
DecomposeRacialGap ==
    /\ DecomposeReturns(decompose_racial_gap(args.df, args.defn, args.n_sim,
                                             args.sample_n))
    /\ UNCHANGED <<stream, sample_rot, args, rng, first_out, heap, tables>>

\* what a run_counterfactual call leaves behind
CounterfactualReturns(r) ==
    /\ res' = IF r.raised
              THEN [op |-> "run_counterfactual", raised |-> TRUE, error |-> r.error]
              ELSE [op |-> "run_counterfactual", raised |-> FALSE,
                    table |-> r.table, visited |-> r.visited]
    /\ mc_rng' = r.g

RunCounterfactual ==
    /\ CounterfactualReturns(run_counterfactual(args.df, args.reference_state_code,
                                                args.target_states, args.n_sim,
                                                args.sample_n, mc_rng))
    /\ UNCHANGED <<stream, sample_rot, args, rng, first_out, heap, tables>>

\* state codes asked of the catalog: known, unknown, in either case
RequestedCodes == {"GA", "ga", "Ca", "ZZ", "zz", ""}

GetStateDefinition ==
    /\ \E code \in RequestedCodes :
          res' = [op         |-> "get_state_definition",
                  state_code |-> code,
                  value      |-> get_state_definition(code)]
    /\ UNCHANGED <<stream, sample_rot, args, rng, mc_rng, first_out, heap, tables>>

\* what a compute_stringency_score call leaves behind
StringencyReturns(r) ==
    /\ res' = [op          |-> "compute_stringency_score",
               value       |-> r.value,
               defn_before |-> args.defn]
    /\ args' = [args EXCEPT !.defn = r.defn]

ComputeStringencyScore ==
    /\ StringencyReturns(compute_stringency_score(args.defn))
    /\ UNCHANGED <<stream, sample_rot, rng, mc_rng, first_out, heap, tables>>

CreateImprovedDefinition ==
    /\ res' = [op    |-> "create_improved_definition",
               value |-> create_improved_definition(args.defn)]
    /\ UNCHANGED <<stream, sample_rot, args, rng, mc_rng, first_out, heap, tables>>

\* what a call of one of the improved simulations leaves behind
ImprovedReturns(op, r) ==
    res' = IF r.raised
           THEN [op |-> op, raised |-> TRUE, error |-> r.error, passes |-> r.passes]
           ELSE [op |-> op, raised |-> FALSE, value |-> r.value, passes |-> r.passes]

UnderidentificationReturns(r) ==
    ImprovedReturns("decompose_underidentification",
                    IF r.raised THEN r
                    ELSE [raised |-> FALSE, value |-> r.report, passes |-> r.passes])

DecomposeUnderidentification ==
    /\ args.op = "decompose_underidentification"
    /\ UnderidentificationReturns(decompose_underidentification(
           args.df, args.defn, args.n_sim, args.sample_n))
    /\ UNCHANGED <<stream, sample_rot, args, rng, mc_rng, first_out, heap, tables>>

RunImprovedSimulation ==
    /\ args.op = "run_improved_simulation"
    /\ ImprovedReturns("run_improved_simulation",
                       run_improved_simulation(args.df, args.states, args.n_sim,
                                               args.sample_n))
    /\ UNCHANGED <<stream, sample_rot, args, rng, mc_rng, first_out, heap, tables>>

RunSensitivityAnalysis ==
    /\ args.op = "run_sensitivity_analysis"
    /\ ImprovedReturns("run_sensitivity_analysis",
                       run_sensitivity_analysis(args.df, args.states, args.n_sim,
                                                args.sample_n))
    /\ UNCHANGED <<stream, sample_rot, args, rng, mc_rng, first_out, heap, tables>>

\* compute_improved_detection_probs at import, reading the module table
ComputeImprovedDetectionProbs ==
    /\ res' = [op    |-> "compute_improved_detection_probs",
               value |-> GapClosure(tables.P_DETECT)]
    /\ UNCHANGED <<stream, sample_rot, args, rng, mc_rng, first_out, heap, tables>>

\* create_improved_definition called on one of the base definitions
Synthesize ==
    /\ Len(heap.objs) < Len(args.bases) + MaxMade
    /\ \E i \in DOMAIN args.bases :
          LET r == CreateImprovedObject(heap, i)
          IN  /\ heap' = r.heap
              /\ res' = [op    |-> "create_improved_object",
                         base  |-> i,
                         i     |-> r.i,
                         value |-> Deref(r.heap, r.i)]
    /\ UNCHANGED <<stream, sample_rot, args, rng, mc_rng, first_out, tables>>

\* the objects returned by earlier calls
Returned == (Len(args.bases) + 1)..Len(heap.objs)

\* a caller appends a family to the list of a returned definition
AppendFamily ==
    /\ \E i \in Returned :
          /\ Len(heap.lists[heap.objs[i].recognized_conditions]) = Len(IMPROVED_ICD10_LIST)
          /\ heap' = [heap EXCEPT !.lists[heap.objs[i].recognized_conditions] =
                                      Append(@, <<"Z","9","9">>)]
          /\ res' = [op |-> "append_family", i |-> i]
    /\ UNCHANGED <<stream, sample_rot, args, rng, mc_rng, first_out, tables>>

\* a caller removes the last family from the list of a returned definition
PopFamily ==
    /\ \E i \in Returned :
          /\ Len(heap.lists[heap.objs[i].recognized_conditions]) = Len(IMPROVED_ICD10_LIST)
          /\ heap' = [heap EXCEPT !.lists[heap.objs[i].recognized_conditions] =
                                      SubSeq(@, 1, Len(@) - 1)]
          /\ res' = [op |-> "pop_family", i |-> i]
    /\ UNCHANGED <<stream, sample_rot, args, rng, mc_rng, first_out, tables>>

\* a caller assigns attributes of a returned definition
AssignAttributes ==
    /\ \E i \in Returned :
          /\ heap.objs[i].adl_threshold = 1
          /\ heap' = [heap EXCEPT !.objs[i].adl_threshold = 3,
                                  !.objs[i].stringency_score = 0]
          /\ res' = [op |-> "assign_attributes", i |-> i]
    /\ UNCHANGED <<stream, sample_rot, args, rng, mc_rng, first_out, tables>>

-----------------------------------------------------------------------------
(* Specification of the eligibility evaluator on every profile *)

EligDefinitions == Catalog \cup { create_improved_definition(STATE_FRAILTY_DEFINITIONS[1]) }
                           \cup TestDefinitions

InitElig ==
    /\ stream = [k \in 0..(PatLen - 1) |-> 400]
    /\ sample_rot = 0
    /\ \E ind \in AllProfiles, d \in EligDefinitions :
          args = [individual |-> ind, defn |-> d, df |-> <<ind>>, n_sim |-> 1,
                  p_detect_override |-> <<>>, p_cert_override |-> <<>>, sample_n |-> 1]
    /\ rng = default_rng(0)
    /\ mc_rng = default_rng(42)
    /\ res = NoResult
    /\ first_out = <<>>
    /\ heap = InitialHeap(<<>>)
    /\ tables = SourceTables

NextElig == ComputeClinicalEligibility

SpecElig == InitElig /\ [][NextElig]_vars

-----------------------------------------------------------------------------
(* Specification of single simulated draws *)

SimProfiles ==
    { Row(r, <<1>>, p[1], p[2], 0, 0, p[3], 0, p[4]) :
        r \in {"white", "black", "aian"},
        p \in { <<0, 0, 0, 0>>,    \* no difficulty
                <<0, 0, 1, 1>>,    \* hearing only
                <<1, 0, 0, 1>>,    \* ambulatory
                <<1, 1, 0, 1>> } } \* ambulatory and cognitive

SimDefinitions ==
    { STATE_FRAILTY_BY_CODE(c)[1] : c \in {"GA", "AZ", "TX", "CA", "NY", "OH"} }
    \cup { create_improved_definition(STATE_FRAILTY_BY_CODE(c)[1]) : c \in {"GA", "TX", "CA"} }
    \cup { d \in TestDefinitions : d.state_code \in {"T5", "T7"} }

InitSim ==
    /\ stream \in [0..(PatLen - 1) -> DrawVals]
    /\ sample_rot = 0
    /\ \E ind \in SimProfiles, d \in SimDefinitions,
          pdo \in DetectOverrides, pco \in CertOverrides :
          args = [individual |-> ind, defn |-> d, df |-> <<ind>>, n_sim |-> 1,
                  p_detect_override |-> pdo, p_cert_override |-> pco, sample_n |-> 1]
    /\ rng = default_rng(0)
    /\ mc_rng = default_rng(42)
    /\ res = NoResult
    /\ first_out = <<>>
    /\ heap = InitialHeap(<<>>)
    /\ tables = SourceTables

NextSim == SimulateExemptionSingle

SpecSim == InitSim /\ [][NextSim]_vars

-----------------------------------------------------------------------------
(* Specification of one individual through the evaluator, the simulator and
   the aggregator *)

\* an eligible companion row, so that the cohort has both race groups
Companion == Row("black", <<1>>, 1, 0, 0, 0, 0, 0, 1)

\* ambulatory, cognitive, hearing, vision and any-disability flags vary
IndividualProfiles ==
    { ind \in AllProfiles : ind.DDRS_bin = 0 /\ ind.DOUT_bin = 0 }

IndividualDefinitions ==
    { STATE_FRAILTY_BY_CODE(c)[1] : c \in {"GA", "AZ", "CA"} }
    \cup { d \in TestDefinitions : d.state_code = "T5" }

Init ==
    /\ stream \in [0..(PatLen - 1) -> {400, 990}]
    /\ sample_rot = 0
    /\ \E ind \in IndividualProfiles, d \in IndividualDefinitions, n \in 1..MaxNSim :
          args = [individual |-> ind, defn |-> d, df |-> <<Companion, ind>>,
                  n_sim |-> n, p_detect_override |-> <<>>, p_cert_override |-> <<>>,
                  sample_n |-> 1]
    /\ rng = default_rng(0)
    /\ mc_rng = default_rng(42)
    /\ res = NoResult
    /\ first_out = <<>>
    /\ heap = InitialHeap(<<>>)
    /\ tables = SourceTables

Next ==
    \/ ComputeClinicalEligibility
    \/ SimulateExemptionSingle
    \/ RunMonteCarlo

Spec == Init /\ [][Next]_vars

-----------------------------------------------------------------------------
(* Specification of repeated runs of the aggregator in one process *)

Healthy(race, w)     == Row(race, w, 0, 0, 0, 0, 0, 0, 0)

Ambulatory(race, w)  == Row(race, w, 1, 0, 0, 0, 0, 0, 1)

HearingOnly(race, w) == Row(race, w, 0, 0, 0, 0, 1, 0, 1)

\* one row per race, and two rows per race with a missing weight
PairCohort == << Ambulatory("white", <<1>>), Ambulatory("black", <<1>>) >>

MixedCohort ==
    << Ambulatory("white", <<2>>), Healthy("white", <<1>>),
       Ambulatory("black", <<>>), HearingOnly("black", <<3>>) >>

InitMC ==
    /\ stream \in [0..(PatLen - 1) -> {400, 700, 990}]
    /\ sample_rot = 0
    /\ \E df \in {PairCohort, MixedCohort},
          d \in { STATE_FRAILTY_BY_CODE(c)[1] : c \in {"GA", "TX"} },
          n \in 1..MaxNSim,
          pdo \in {<<>>, <<P_DETECT_IMPROVED>>},
          sn \in 1..2 :
          args = [individual |-> Companion, defn |-> d, df |-> df,
                  n_sim |-> n, p_detect_override |-> pdo, p_cert_override |-> <<>>,
                  sample_n |-> sn]
    /\ rng = default_rng(0)
    /\ mc_rng = default_rng(42)
    /\ res = NoResult
    /\ first_out = <<>>
    /\ heap = InitialHeap(<<>>)
    /\ tables = SourceTables

NextMC ==
    \/ RunMonteCarlo
    \/ RunMonteCarloElsewhere

SpecMC == InitMC /\ [][NextMC]_vars

-----------------------------------------------------------------------------
(* Specification of the racial-gap decomposition on small cohorts *)

Cohorts ==
    { PairCohort,
      MixedCohort,
      << Healthy("white", <<1>>), Ambulatory("black", <<2>>), Ambulatory("NA", <<1>>) >>,
      << Ambulatory("white", <<1>>), Ambulatory("hispanic", <<1>>) >>,
      << Ambulatory("black", <<1>>), Ambulatory("aian", <<1>>) >>,
      << >> }

CohortDefinitions ==
    { STATE_FRAILTY_BY_CODE(c)[1] : c \in {"GA", "TX", "CA"} }
    \cup { create_improved_definition(STATE_FRAILTY_BY_CODE("TX")[1]) }

InitDecomp ==
    /\ stream \in [0..(PatLen - 1) -> {400, 700, 990}]
    /\ sample_rot \in 0..1
    /\ \E df \in Cohorts, d \in CohortDefinitions, n \in 1..MaxNSim, sn \in 1..2 :
          args = [individual |-> Companion, defn |-> d, df |-> df,
                  n_sim |-> n, p_detect_override |-> <<>>, p_cert_override |-> <<>>,
                  sample_n |-> sn]
    /\ rng = default_rng(0)
    /\ mc_rng = default_rng(42)
    /\ res = NoResult
    /\ first_out = <<>>
    /\ heap = InitialHeap(<<>>)
    /\ tables = SourceTables

NextDecomp == DecomposeRacialGap

SpecDecomp == InitDecomp /\ [][NextDecomp]_vars

-----------------------------------------------------------------------------
(* Specification of the counterfactual analysis *)

\* target_states arguments: lists with known and unknown codes, the empty
\* list, and None (every catalog state but the reference)
TargetLists ==
    { << <<"GA", "TX">> >>, << <<"ZZ", "AZ">> >>, << <<"TX", "ZZ", "CA">> >>,
      << <<"ZZ">> >>, << <<>> >> }

CounterfactualCohorts ==
    { PairCohort,
      MixedCohort,
      << Ambulatory("white", <<1>>), Ambulatory("hispanic", <<1>>) >>,
      << >> }

\* run_counterfactual(df, reference_state_code, target_states, n_sim, sample_n)
CounterfactualCalls ==
    { [df |-> df, reference_state_code |-> ref, target_states |-> t,
       n_sim |-> n, sample_n |-> 1] :
        df \in CounterfactualCohorts, ref \in {"CA", "GA", "ZZ"},
        t \in TargetLists, n \in 1..MaxNSim }
    \cup
    { [df |-> PairCohort, reference_state_code |-> ref, target_states |-> <<>>,
       n_sim |-> 1, sample_n |-> 1] : ref \in {"CA", "ZZ"} }

InitCf ==
    /\ stream \in [0..(PatLen - 1) -> {400, 700, 990}]
    /\ sample_rot = 0
    /\ args \in CounterfactualCalls
    /\ rng = default_rng(0)
    /\ mc_rng = default_rng(42)
    /\ res = NoResult
    /\ first_out = <<>>
    /\ heap = InitialHeap(<<>>)
    /\ tables = SourceTables

NextCf == RunCounterfactual

SpecCf == InitCf /\ [][NextCf]_vars

-----------------------------------------------------------------------------
(* Specification of requests by state code *)

LookupCalls ==
    { [df |-> PairCohort, reference_state_code |-> ref, target_states |-> t,
       n_sim |-> n, sample_n |-> 1] :
        ref \in {"CA", "ZZ"},
        t \in { << <<"GA", "TX">> >>, << <<"ZZ", "AZ">> >>, << <<"ZZ">> >> },
        n \in 1..MaxNSim }

InitLookup ==
    /\ stream \in [0..(PatLen - 1) -> {400, 700}]
    /\ sample_rot = 0
    /\ args \in LookupCalls
    /\ rng = default_rng(0)
    /\ mc_rng = default_rng(42)
    /\ res = NoResult
    /\ first_out = <<>>
    /\ heap = InitialHeap(<<>>)
    /\ tables = SourceTables

NextLookup ==
    \/ GetStateDefinition
    \/ RunCounterfactual

SpecLookup == InitLookup /\ [][NextLookup]_vars

-----------------------------------------------------------------------------
(* Specification of the operations on one definition *)

\* fourteen families: the improved list and one more
FourteenFamilies == Append(IMPROVED_ICD10_LIST, <<"Z","7","4">>)

\* every combination of the fields the operations read, with lists of 0 to 14
\* families
FieldCombinations ==
    { [state_code |-> "T0",
       adl_threshold |-> adl,
       requires_prior_auth_record |-> prior,
       requires_physician_cert |-> cert,
       recognized_conditions |-> SubSeq(FourteenFamilies, 1, n),
       ex_parte_determination |-> mode,
       claims_lag |-> lag,
       uses_ehr_data |-> flags[1],
       uses_hie |-> flags[2],
       uses_mds_data |-> flags[3],
       uses_claims_frailty_index |-> flags[4],
       stringency_score |-> 50] :
        adl \in 1..4, prior \in BOOLEAN, cert \in BOOLEAN,
        n \in {0, 3, 6, 9, 11, 12, 13, 14},
        mode \in ExparteDetermination, lag \in ClaimsLag,
        flags \in [1..4 -> BOOLEAN] }

InitDefs ==
    /\ stream = [k \in 0..(PatLen - 1) |-> 400]
    /\ sample_rot = 0
    /\ \E d \in FieldCombinations \cup Catalog :
          args = [defn |-> d]
    /\ rng = default_rng(0)
    /\ mc_rng = default_rng(42)
    /\ res = NoResult
    /\ first_out = <<>>
    /\ heap = InitialHeap(<<>>)
    /\ tables = SourceTables

NextDefs ==
    \/ ComputeStringencyScore
    \/ CreateImprovedDefinition

SpecDefs == InitDefs /\ [][NextDefs]_vars

-----------------------------------------------------------------------------
(* Specification of synthesized definitions and their later mutation *)

BasePairs ==
    { << STATE_FRAILTY_BY_CODE(c[1])[1], STATE_FRAILTY_BY_CODE(c[2])[1] >> :
        c \in { <<"GA", "CA">>, <<"TX", "NY">>, <<"AZ", "AR">> } }

InitSynth ==
    /\ stream = [k \in 0..(PatLen - 1) |-> 400]
    /\ sample_rot = 0
    /\ \E b \in BasePairs :
          /\ args = [bases |-> b]
          /\ heap = InitialHeap(b)
    /\ tables = SourceTables
    /\ rng = default_rng(0)
    /\ mc_rng = default_rng(42)
    /\ res = NoResult
    /\ first_out = <<>>

NextSynth ==
    \/ Synthesize
    \/ AppendFamily
    \/ PopFamily
    \/ AssignAttributes

SpecSynth == InitSynth /\ [][NextSynth]_vars

-----------------------------------------------------------------------------
(* Specification of the improved detection map over base tables *)

\* two-decimal probabilities up to the ceiling, those of P_DETECT among them
BaseProbabilities == {580, 610, 640, 690, 720, 980}

InitProbs ==
    /\ stream = [k \in 0..(PatLen - 1) |-> 400]
    /\ sample_rot = 0
    /\ args = [op |-> "compute_improved_detection_probs"]
    /\ \E t \in [DOMAIN P_DETECT -> BaseProbabilities] :
          tables = [P_DETECT |-> t, P_CERT |-> P_CERT]
    /\ rng = default_rng(0)
    /\ mc_rng = default_rng(42)
    /\ res = NoResult
    /\ first_out = <<>>
    /\ heap = InitialHeap(<<>>)

NextProbs == ComputeImprovedDetectionProbs

SpecProbs == InitProbs /\ [][NextProbs]_vars

-----------------------------------------------------------------------------
(* Specification of the simulations of improved definitions *)

ImprovedCohorts ==
    { PairCohort,
      MixedCohort,
      << Healthy("white", <<1>>), Ambulatory("black", <<2>>), Ambulatory("NA", <<1>>) >>,
      << Ambulatory("hispanic", <<1>>) >> }

UnderidentificationCalls ==
    { [op |-> "decompose_underidentification", df |-> df, defn |-> d,
       n_sim |-> n, sample_n |-> sn] :
        df \in ImprovedCohorts,
        d \in { STATE_FRAILTY_BY_CODE(c)[1] : c \in {"GA", "TX", "CA"} },
        n \in 1..MaxNSim, sn \in 1..2 }

\* states arguments: known and unknown codes, and None
StateLists == { << <<"GA">> >>, << <<"TX", "ZZ", "CA">> >>, << <<"ZZ">> >>, <<>> }

\* run_improved_simulation and run_sensitivity_analysis(acs_df, states, n_sim,
\* sample_n); the default state lists are tried on one cohort
StateListCalls ==
    { [op |-> op, df |-> df, states |-> st, n_sim |-> n, sample_n |-> 1] :
        op \in {"run_improved_simulation", "run_sensitivity_analysis"},
        df \in ImprovedCohorts, st \in StateLists \ {<<>>}, n \in 1..MaxNSim }
    \cup
    { [op |-> op, df |-> PairCohort, states |-> <<>>, n_sim |-> 1, sample_n |-> 1] :
        op \in {"run_improved_simulation", "run_sensitivity_analysis"} }

InitImproved ==
    /\ stream \in [0..(PatLen - 1) -> {400, 700, 990}]
    /\ sample_rot = 0
    /\ args \in UnderidentificationCalls \cup StateListCalls
    /\ rng = default_rng(0)
    /\ mc_rng = default_rng(42)
    /\ res = NoResult
    /\ first_out = <<>>
    /\ heap = InitialHeap(<<>>)
    /\ tables = SourceTables

NextImproved ==
    \/ DecomposeUnderidentification
    \/ RunImprovedSimulation
    \/ RunSensitivityAnalysis

SpecImproved == InitImproved /\ [][NextImproved]_vars

-----------------------------------------------------------------------------
(* Specification of two aggregator runs that differ in the certification
   override *)

\* certification overrides: None, the empty dict (falsy, so the default table
\* is used), partial maps and full maps
CertMaps ==
    { <<>>,
      << [r \in {} |-> 0] >>,
      << [r \in {"black"} |-> 500] >>,
      << [r \in {"black", "white"} |-> IF r = "black" THEN 900 ELSE 600] >> }

TwoRunCohorts ==
    { PairCohort,
      MixedCohort,
      << Ambulatory("black", <<1>>), Ambulatory("black", <<2>>),
         Ambulatory("white", <<1>>) >> }

TwoRunDefinitions == { STATE_FRAILTY_BY_CODE(c)[1] : c \in {"TX", "GA"} }

InitTwoRuns ==
    /\ stream \in [0..(PatLen - 1) -> {400, 700, 990}]
    /\ sample_rot = 0
    /\ \E df \in TwoRunCohorts, d \in TwoRunDefinitions, n \in 1..MaxNSim,
          pco \in CertMaps, second \in CertMaps :
          args = [df |-> df, defn |-> d, n_sim |-> n, sample_n |-> 2,
                  p_detect_override |-> <<>>,
                  p_cert_override |-> pco, p_cert_second |-> second]
    /\ rng = default_rng(0)
    /\ mc_rng = default_rng(42)
    /\ res = NoResult
    /\ first_out = <<>>
    /\ heap = InitialHeap(<<>>)
    /\ tables = SourceTables

NextTwoRuns == RunMonteCarloTwice

SpecTwoRuns == InitTwoRuns /\ [][NextTwoRuns]_vars

-----------------------------------------------------------------------------
(* Specification of decompose_racial_gap after a caller assigned the rates of
   P_DETECT and P_CERT *)

\* every race given the detection rate d and the certification rate c
EqualRates(d, c) ==
    [P_DETECT |-> [r \in DOMAIN P_DETECT |-> d],
     P_CERT   |-> [r \in DOMAIN P_CERT |-> c]]

\* the dicts of the source, dicts with equal rates, and dicts with equal
\* detection rates only
AssignedTables ==
    { SourceTables }
    \cup { EqualRates(d, c) : d \in {580, 720}, c \in {640, 810} }
    \cup { [P_DETECT |-> EqualRates(580, 640).P_DETECT, P_CERT |-> P_CERT] }

InitAssigned ==
    /\ stream \in [0..(PatLen - 1) -> {400, 700, 990}]
    /\ sample_rot = 0
    /\ \E df \in Cohorts, d \in CohortDefinitions, n \in 1..MaxNSim :
          args = [individual |-> Companion, defn |-> d, df |-> df,
                  n_sim |-> n, p_detect_override |-> <<>>, p_cert_override |-> <<>>,
                  sample_n |-> 2]
    /\ rng = default_rng(0)
    /\ mc_rng = default_rng(42)
    /\ res = NoResult
    /\ first_out = <<>>
    /\ heap = InitialHeap(<<>>)
    /\ tables \in AssignedTables

NextAssigned == DecomposeRacialGap

SpecAssigned == InitAssigned /\ [][NextAssigned]_vars

-----------------------------------------------------------------------------
(* Specification of the simulator given override maps with rates outside
   [0, 1] *)

\* rates in thousandths: below 0 and above 1
OutOfRangeDetect == { <<>>, << [r \in {"white", "black"} |-> IF r = "white" THEN 0 - 200 ELSE 1500] >> }

OutOfRangeCert == { <<>>, << [r \in {"white", "black"} |-> IF r = "white" THEN 1500 ELSE 0 - 100] >> }

InitRange ==
    /\ stream \in [0..(PatLen - 1) -> DrawVals]
    /\ sample_rot = 0
    /\ \E ind \in { Ambulatory("white", <<1>>), Ambulatory("black", <<1>>) },
          d \in { STATE_FRAILTY_BY_CODE(c)[1] : c \in {"TX", "GA", "CA"} },
          pdo \in OutOfRangeDetect, pco \in OutOfRangeCert :
          args = [individual |-> ind, defn |-> d, df |-> <<ind>>, n_sim |-> 1,
                  p_detect_override |-> pdo, p_cert_override |-> pco, sample_n |-> 1]
    /\ rng = default_rng(0)
    /\ mc_rng = default_rng(42)
    /\ res = NoResult
    /\ first_out = <<>>
    /\ heap = InitialHeap(<<>>)
    /\ tables = SourceTables

NextRange == SimulateExemptionSingle

SpecRange == InitRange /\ [][NextRange]_vars

-----------------------------------------------------------------------------
(* Properties of the clinical eligibility evaluator *)

\* p is a textual prefix of s
IsPrefixOf(p, s) ==
    /\ Len(p) <= Len(s)
    /\ \A i \in 1..Len(p) : s[i] = p[i]

\* f without its trailing '-' markers
Stripped(f) ==
    LET keep == { k \in 0..Len(f) : \A i \in (k + 1)..Len(f) : f[i] = "-" }
        k0   == CHOOSE k \in keep : \A m \in keep : k <= m
    IN  SubSeq(f, 1, k0)

PositiveAdl(ind) ==
    Cardinality({ dom \in {"DPHY_bin", "DDRS_bin", "DOUT_bin", "DREM_bin"} : ind[dom] = 1 })

\* some domain reported positive has a table prefix matching a recognized family
SomeDomainMatches(ind, d) ==
    \E dom \in DOMAIN ACS_TO_ICD_PREFIXES :
        /\ ind[dom] = 1
        /\ \E i \in DOMAIN ACS_TO_ICD_PREFIXES[dom], j \in DOMAIN d.recognized_conditions :
              LET p == ACS_TO_ICD_PREFIXES[dom][i]
                  f == d.recognized_conditions[j]
              IN  IsPrefixOf(p, f) \/ IsPrefixOf(Stripped(f), p)

EligibleByRule(ind, d) ==
    /\ PositiveAdl(ind) >= d.adl_threshold
    /\ \/ SomeDomainMatches(ind, d)
       \/ ind.DIS_bin = 1 /\ Len(d.recognized_conditions) >= 10

\* a one-letter recognized family covers every table prefix of a positive
\* domain that begins with that letter
OneLetterCovers(ind, d) ==
    \A j \in DOMAIN d.recognized_conditions :
        \A dom \in DOMAIN ACS_TO_ICD_PREFIXES :
            \A i \in DOMAIN ACS_TO_ICD_PREFIXES[dom] :
                ( /\ Len(d.recognized_conditions[j]) = 1
                  /\ ACS_TO_ICD_PREFIXES[dom][i][1] = d.recognized_conditions[j][1]
                  /\ ind[dom] = 1
                  /\ PositiveAdl(ind) >= d.adl_threshold )
                => compute_clinical_eligibility(ind, d)

-----------------------------------------------------------------------------
(* Properties of the single-draw simulator *)

\* the value the generator yields at position pos of the stream of seed 0
StreamAt(pos) == stream[pos % PatLen]

\* the call under study was made on a clinically eligible individual
SimulatedEligible ==
    /\ res.op = "simulate_exemption_single"
    /\ EligibleByRule(args.individual, args.defn)

\* the draws logged are the consecutive values of the generator from where the
\* call found it, and the generator was advanced by exactly that many
DrawsAreConsecutive ==
    /\ rng.pos = res.rng_before.pos + Len(res.draws)
    /\ \A k \in DOMAIN res.draws :
          res.draws[k].value = StreamAt(res.rng_before.pos + k - 1)

\* the certification probability of a race: its entry in the override map when
\* a non-empty one is supplied, in the default table otherwise, and the default
\* table's "other" entry for a race the map does not hold
CertRate(race, p_cert_override) ==
    LET m == IF p_cert_override # <<>> /\ DOMAIN p_cert_override[1] # {}
             THEN p_cert_override[1] ELSE P_CERT
    IN  IF race \in DOMAIN m THEN m[race] ELSE P_CERT["other"]

\* C1: an individual whose ADL count is below adl_threshold is never clinically
\* eligible, whatever the other flags; for a clinically ineligible individual
\* simulate_exemption_single returns false and leaves the generator where it
\* was, and run_monte_carlo records n_sim false outcomes and takes no draw.
Thm_C1_IneligibleNeverDraws ==
    /\ ( /\ res.op = "compute_clinical_eligibility"
         /\ PositiveAdl(args.individual) < args.defn.adl_threshold )
       => ~ res.eligible
    /\ ( /\ res.op = "simulate_exemption_single"
         /\ ~ EligibleByRule(args.individual, args.defn) )
       => /\ ~ res.exempt
          /\ res.draws = <<>>
          /\ rng = res.rng_before
    /\ res.op = "run_monte_carlo"
       => \A k \in DOMAIN res.groups :
             \A i \in DOMAIN res.groups[k].sample :
                ~ EligibleByRule(res.groups[k].sample[i], args.defn)
                => /\ res.groups[k].used[i] = 0
                   /\ Len(res.groups[k].exempt_draws[i]) = args.n_sim
                   /\ \A j \in 1..args.n_sim : ~ res.groups[k].exempt_draws[i][j]

\* the aggregator has drawn for the eligible companion and then met an
\* individual with the any-disability and hearing flags set who fails the ADL
\* threshold: no draw was taken for that individual
Wit_C1_AdlFailInAggregator ==
    /\ res.op = "run_monte_carlo"
    /\ Len(res.groups) = 2
    /\ res.groups[1].used[1] > 0
    /\ res.groups[2].sample[1].DIS_bin = 1
    /\ res.groups[2].sample[1].DEAR_bin = 1
    /\ PositiveAdl(res.groups[2].sample[1]) < args.defn.adl_threshold
    /\ res.groups[2].used[1] = 0

\* C4: with certification required and ACTIVE ex parte, the first draw of an
\* eligible individual is the detection draw; when it is not below the
\* detection probability the call returns false after that one draw; otherwise
\* exactly one more draw is taken, against the certification probability of
\* the race, and the call returns true iff it is below.  No certification draw
\* comes before the detection draw.
Thm_C4_ActiveCertOrder ==
    ( /\ SimulatedEligible
      /\ args.defn.requires_physician_cert
      /\ args.defn.ex_parte_determination = "ACTIVE" )
    => /\ DrawsAreConsecutive
       /\ Len(res.draws) >= 1
       /\ res.draws[1].stage = "detect"
       /\ IF ~ (res.draws[1].value < res.draws[1].p)
          THEN /\ ~ res.exempt
               /\ Len(res.draws) = 1
          ELSE /\ Len(res.draws) = 2
               /\ res.draws[2].stage = "cert"
               /\ res.draws[2].p =
                      CertRate(args.individual.race_eth, args.p_cert_override)
               /\ res.exempt <=> (res.draws[2].value < res.draws[2].p)

\* a black individual is visible and then fails the certification draw, which
\* a white individual would have passed
Wit_C4_CertFailsAfterDetection ==
    /\ SimulatedEligible
    /\ args.defn.requires_physician_cert
    /\ args.defn.ex_parte_determination = "ACTIVE"
    /\ args.individual.race_eth = "black"
    /\ args.p_cert_override = <<>>
    /\ Len(res.draws) = 2
    /\ res.draws[2].value >= P_CERT["black"]
    /\ res.draws[2].value < P_CERT["white"]
    /\ ~ res.exempt

\* C5: with certification required and PARTIAL ex parte, a visible eligible
\* individual takes a second draw against 0.5; below it the call returns true
\* after two draws, otherwise a third draw is compared with the certification
\* probability and decides the outcome.
Thm_C5_PartialCertDraws ==
    ( /\ SimulatedEligible
      /\ args.defn.requires_physician_cert
      /\ args.defn.ex_parte_determination = "PARTIAL"
      /\ Len(res.draws) >= 1
      /\ res.draws[1].value < res.draws[1].p )
    => /\ DrawsAreConsecutive
       /\ Len(res.draws) >= 2
       /\ res.draws[2].stage = "auto"
       /\ res.draws[2].p = 500
       /\ IF res.draws[2].value < 500
          THEN /\ res.exempt
               /\ Len(res.draws) = 2
          ELSE /\ Len(res.draws) = 3
               /\ res.draws[3].stage = "cert"
               /\ res.draws[3].p =
                      CertRate(args.individual.race_eth, args.p_cert_override)
               /\ res.exempt <=> (res.draws[3].value < res.draws[3].p)

\* three draws: visible, not auto-detected, certification obtained
Wit_C5_ThirdDrawDecides ==
    /\ SimulatedEligible
    /\ args.defn.requires_physician_cert
    /\ args.defn.ex_parte_determination = "PARTIAL"
    /\ Len(res.draws) = 3
    /\ res.draws[2].value >= 500
    /\ res.exempt

\* C6: when certification is not required (so for every improved definition)
\* or ex parte is FULL, an eligible individual is exempt iff the detection draw
\* is below the detection probability, and exactly one draw is taken.
Thm_C6_VisibleMeansExempt ==
    ( /\ SimulatedEligible
      /\ \/ ~ args.defn.requires_physician_cert
         \/ args.defn.ex_parte_determination = "FULL" )
    => /\ DrawsAreConsecutive
       /\ Len(res.draws) = 1
       /\ res.draws[1].stage = "detect"
       /\ res.exempt <=> (res.draws[1].value < res.draws[1].p)

\* certification required but bypassed by FULL ex parte: exempt on the
\* detection draw alone, drawn after an earlier call had advanced the generator
Wit_C6_FullBypassesCert ==
    /\ SimulatedEligible
    /\ args.defn.requires_physician_cert
    /\ args.defn.ex_parte_determination = "FULL"
    /\ res.rng_before.pos > 0
    /\ Len(res.draws) = 1
    /\ res.exempt

\* the bonus of a definition, in thousandths
DetectionBonus(d) ==
    (CASE d.ex_parte_determination = "FULL"    -> 120
       [] d.ex_parte_determination = "PARTIAL" -> 60
       [] d.ex_parte_determination = "ACTIVE"  -> 0)
    + (IF d.uses_hie THEN 40 ELSE 0)
    + (IF d.uses_mds_data THEN 30 ELSE 0)
    + (IF d.claims_lag = "SHORT" THEN 30 ELSE 0)

\* the map the base rate is read from: the override when one is supplied
BaseMap == IF args.p_detect_override # <<>> THEN args.p_detect_override[1] ELSE P_DETECT

-----------------------------------------------------------------------------
(* Properties of the aggregator and of the decomposition *)

\* C8: every run_monte_carlo call on the arguments under study returns the
\* table the first such call returned, whatever calls (of this or of another
\* analysis) came before or between: each call starts its stream afresh from
\* the same seed.
Thm_C8_SameTableEveryCall ==
    res.op = "run_monte_carlo" => first_out = << res.table >>

\* a later call, made when earlier calls had left a used generator behind,
\* with a table that depends on the draws (a rate strictly between 0 and 100)
Wit_C8_RepeatedAfterOtherCalls ==
    /\ res.op = "run_monte_carlo"
    /\ res.repeated
    /\ res.left_over
    /\ Len(res.table) = 2
    /\ \E k \in DOMAIN res.table :
          /\ res.table[k].simulated_exempt_pct.n > 0
          /\ res.table[k].simulated_exempt_pct.n
                < 100 * res.table[k].simulated_exempt_pct.d

\* the exemption percentage of a race in a table
PctOfRace(table, race) ==
    table[CHOOSE k \in DOMAIN table : table[k].race_eth = race].simulated_exempt_pct

\* white minus black in a table, undefined when either group is missing
WhiteMinusBlack(table) ==
    IF \A r \in {"white", "black"} : \E k \in DOMAIN table : table[k].race_eth = r
    THEN RatSub(PctOfRace(table, "white"), PctOfRace(table, "black"))
    ELSE NaN

\* the gap of one pass on the cohort and definition under study
PassGap(p_det, p_cert) ==
    WhiteMinusBlack(run_monte_carlo(args.df, args.defn, args.n_sim,
                                    p_det, p_cert, args.sample_n).table)

WhiteDetectionForAll == << [r \in DOMAIN P_DETECT |-> P_DETECT["white"]] >>

WhiteCertificationForAll == << [r \in DOMAIN P_CERT |-> P_CERT["white"]] >>

\* the four fields in percentage points that C9 expects from the four passes
ExpectedChannels(a, b, c, d) ==
    [observed_gap_pp          |-> Round2(a),
     algorithm_gap_pp         |-> Round2(d),
     visibility_channel_pp    |-> Round2(RatSub(a, b)),
     documentation_channel_pp |-> Round2(RatSub(a, c))]

ReportedChannels ==
    [f \in {"observed_gap_pp", "algorithm_gap_pp", "visibility_channel_pp",
            "documentation_channel_pp"} |-> res.value[f]]

ExpectedPctOfTotal(a, b, c, d) ==
    IF RatPositive(a)
    THEN [algorithm_pct_of_total     |-> Round1(RatPctOf(d, a)),
          visibility_pct_of_total    |-> Round1(RatPctOf(RatSub(a, b), a)),
          documentation_pct_of_total |-> Round1(RatPctOf(RatSub(a, c), a))]
    ELSE [algorithm_pct_of_total     |-> NaN,
          visibility_pct_of_total    |-> NaN,
          documentation_pct_of_total |-> NaN]

\* C10 as stated: every call of decompose_racial_gap returns a report; when
\* the observed gap is zero, negative or undefined (no black or no white
\* group) the three percent-of-total fields are not-a-number, and when it is
\* positive each is its channel over the observed gap times 100 (at the one
\* decimal the report keeps).
Cex_C10_NanWhenGapNotPositive ==
    res.op = "decompose_racial_gap"
    => /\ ~ res.raised
       /\ [f \in {"algorithm_pct_of_total", "visibility_pct_of_total",
                  "documentation_pct_of_total"} |-> res.value[f]]
          = ExpectedPctOfTotal(PassGap(<<>>, <<>>),
                               PassGap(WhiteDetectionForAll, <<>>),
                               PassGap(<<>>, WhiteCertificationForAll),
                               PassGap(WhiteDetectionForAll, WhiteCertificationForAll))

-----------------------------------------------------------------------------
(* Properties of the counterfactual analysis *)

\* the catalog definition of a state code
DefinitionOf(code) == CHOOSE d \in Catalog : d.state_code = code

\* white minus black when the cohort under study is simulated under d
GapUnder(d) ==
    WhiteMinusBlack(run_monte_carlo(args.df, d, args.n_sim, <<>>, <<>>,
                                    args.sample_n).table)

\* the row C11 expects for a target from its actual and counterfactual gaps
ExpectedCounterfactualRow(code, actual, cf) ==
    [state                 |-> code,
     actual_gap_pp         |-> Round2(actual),
     counterfactual_gap_pp |-> Round2(cf),
     reducible_gap_pp      |-> Round2(RatSub(actual, cf)),
     pct_gap_reducible     |->
         IF RatPositive(actual)
         THEN Round1(RatPctOf(RatSub(actual, cf), actual))
         ELSE NaN,
     reference_algorithm   |-> args.reference_state_code]

\* C11: every row of run_counterfactual holds, for its target state, the gap
\* (white minus black) under the target's own definition, the gap under the
\* reference definition on the same cohort, their difference, and the
\* difference as a percentage of the actual gap, which is not-a-number when
\* the actual gap is not positive (gaps at two decimals, the percentage at one).
Thm_C11_CounterfactualRows ==
    ( /\ res.op = "run_counterfactual"
      /\ ~ res.raised )
    => \A k \in DOMAIN res.table :
          res.table[k] =
              ExpectedCounterfactualRow(res.table[k].state,
                  GapUnder(DefinitionOf(res.table[k].state)),
                  GapUnder(DefinitionOf(args.reference_state_code)))

\* a table with a row whose positive actual gap is partly reducible, and a
\* row whose actual gap is not positive
Wit_C11_ReducibleAndNaN ==
    /\ res.op = "run_counterfactual"
    /\ ~ res.raised
    /\ \E k \in DOMAIN res.table :
          /\ RatPositive(res.table[k].actual_gap_pp)
          /\ RatPositive(res.table[k].reducible_gap_pp)
          /\ ~ IsNaN(res.table[k].pct_gap_reducible)
    /\ \E k \in DOMAIN res.table : IsNaN(res.table[k].pct_gap_reducible)

\* the state codes of the catalog
CatalogCodes == { d.state_code : d \in Catalog }

\* the explicit target list of the call under study holds an unknown code
SomeTargetUnknown ==
    /\ args.target_states # <<>>
    /\ \E k \in DOMAIN args.target_states[1] :
          args.target_states[1][k] \notin CatalogCodes

\* C12 as stated: a code that is not in the catalog gets no definition from
\* get_state_definition and a known code gets its own; run_counterfactual
\* fails with a not-found signal when the reference code is unknown, and also
\* fails, rather than going on without it, when a target code is unknown.
Cex_C12_UnknownCodeFailsFast ==
    /\ res.op = "get_state_definition"
       => IF Upper(res.state_code) \in CatalogCodes
          THEN res.value = << DefinitionOf(Upper(res.state_code)) >>
          ELSE res.value = <<>>
    /\ ( /\ res.op = "run_counterfactual"
         /\ args.reference_state_code \notin CatalogCodes )
       => res.raised /\ res.error = "ValueError"
    /\ ( /\ res.op = "run_counterfactual"
         /\ SomeTargetUnknown )
       => res.raised

-----------------------------------------------------------------------------
(* Properties of the operations on one definition *)

\* the fields of a definition that create_improved_definition is to leave alone
KeptFields ==
    {"state_code", "ex_parte_determination", "claims_lag", "uses_hie",
     "uses_ehr_data", "uses_mds_data", "uses_claims_frailty_index",
     "requires_prior_auth_record", "stringency_score"}

ExpectedScoreSixtieths(d) ==
    LET families == Len(d.recognized_conditions)
        raw ==
            300
            - (CASE d.adl_threshold >= 3 -> 120
                 [] d.adl_threshold = 2  -> 60
                 [] OTHER                -> 0)
            - (IF d.requires_physician_cert THEN 60 ELSE 0)
            - (IF d.requires_prior_auth_record THEN 30 ELSE 0)
            + (CASE d.ex_parte_determination = "FULL"   -> 90
                 [] d.ex_parte_determination = "ACTIVE" -> 0 - 90
                 [] OTHER                               -> 0)
            + (CASE d.claims_lag = "SHORT" -> 60
                 [] d.claims_lag = "LONG"  -> 0 - 30
                 [] OTHER                  -> 0)
            + 30 * Cardinality({ f \in {"uses_hie", "uses_ehr_data", "uses_mds_data"} : d[f] })
            + Min(5 * families, 60)
            - (IF d.uses_claims_frailty_index /\ ~ d.uses_hie THEN 30 ELSE 0)
    IN  IF raw < 0 THEN 0 ELSE IF raw > 600 THEN 600 ELSE raw

\* the most inclusive profile named by C18
MostInclusive(d) ==
    /\ d.adl_threshold = 1
    /\ ~ d.requires_physician_cert
    /\ ~ d.requires_prior_auth_record
    /\ d.ex_parte_determination = "FULL"
    /\ d.claims_lag = "SHORT"
    /\ d.uses_hie /\ d.uses_ehr_data /\ d.uses_mds_data
    /\ Len(d.recognized_conditions) = 13
    /\ ~ d.uses_claims_frailty_index

\* C18: compute_stringency_score returns the score built from 5.0 by the
\* adjustments of each field, clamped to [0, 10] and rounded to one decimal
\* (the returned tenth is the nearest to the clamped score); it is always in
\* [0, 10], is 10.0 for the most inclusive profile, and the call leaves the
\* definition and its stored score unchanged.
Thm_C18_StringencyScore ==
    res.op = "compute_stringency_score"
    => /\ res.value \in 0..100
       /\ 2 * Abs(6 * res.value - ExpectedScoreSixtieths(res.defn_before)) <= 6
       /\ MostInclusive(res.defn_before) => res.value = 100
       /\ args.defn = res.defn_before

\* a score that the clamp at 0 raised, and that differs from the stored one
Wit_C18_ClampedAtZero ==
    /\ res.op = "compute_stringency_score"
    /\ res.value = 0
    /\ StringencyTwelfths(res.defn_before) < 0
    /\ args.defn.stringency_score # res.value

-----------------------------------------------------------------------------
(* Properties of the synthesized definition objects *)

\* the list objects reachable from the base definitions and the constant
BaseAddresses == {IMPROVED_ICD10_LIST_ADDRESS} \cup { k + 1 : k \in DOMAIN args.bases }

\* C14: whatever create_improved_definition calls were made and however the
\* returned definitions were mutated afterwards, every base definition and the
\* 13-family constant are as they were at import, and no returned definition
\* refers to a list of a base definition, to the constant or to the list of
\* another returned definition.
Thm_C14_NoSharedLists ==
    "bases" \in DOMAIN args
    => /\ heap.lists[IMPROVED_ICD10_LIST_ADDRESS] = IMPROVED_ICD10_LIST
       /\ \A k \in DOMAIN args.bases : Deref(heap, k) = args.bases[k]
       /\ \A i \in Returned :
             /\ heap.objs[i].recognized_conditions \notin BaseAddresses
             /\ \A j \in Returned :
                   i # j => heap.objs[i].recognized_conditions
                               # heap.objs[j].recognized_conditions

\* two definitions synthesized from the same base and then mutated differently:
\* one list one family longer, the other one family shorter
Wit_C14_MutatedApart ==
    /\ "bases" \in DOMAIN args
    /\ \E i \in Returned, j \in Returned :
          /\ i # j
          /\ heap.objs[i].state_code = heap.objs[j].state_code
          /\ Len(heap.lists[heap.objs[i].recognized_conditions])
                = Len(IMPROVED_ICD10_LIST) + 1
          /\ Len(heap.lists[heap.objs[j].recognized_conditions])
                = Len(IMPROVED_ICD10_LIST) - 1
          /\ heap.objs[i].adl_threshold = 3

-----------------------------------------------------------------------------
(* Properties of the improved detection map *)

\* C15: the improved map closes 40% of the distance to 0.98 for every race of
\* the base table (compared in units of 1e-5), so every gap between two races
\* is 60% of the base gap, the order of races is kept, every value lies
\* between its base value and 0.98, and the table of the source gives white
\* 0.824 and black 0.740, 0.084 apart.
Thm_C15_ProportionalGapClosure ==
    res.op = "compute_improved_detection_probs"
    => LET base     == tables.P_DETECT
           improved == res.value
       IN  /\ DOMAIN improved = DOMAIN base
           /\ \A race \in DOMAIN base :
                 /\ 100 * improved[race] = 100 * base[race] + 40 * (980 - base[race])
                 /\ base[race] <= improved[race]
                 /\ improved[race] <= 980
           /\ \A r1 \in DOMAIN base, r2 \in DOMAIN base :
                 /\ 100 * (improved[r1] - improved[r2]) = 60 * (base[r1] - base[r2])
                 /\ base[r1] < base[r2] => improved[r1] < improved[r2]
                 /\ base[r1] = base[r2] => improved[r1] = improved[r2]
           /\ base = P_DETECT
                 => /\ improved["white"] = 824
                    /\ improved["black"] = 740
                    /\ improved["white"] - improved["black"] = 84
                    /\ base["white"] - base["black"] = 140
                    /\ improved = P_DETECT_IMPROVED

\* the map computed from the table of the source
Wit_C15_SourceTable ==
    /\ res.op = "compute_improved_detection_probs"
    /\ tables.P_DETECT = P_DETECT
    /\ res.value["white"] = 824
    /\ res.value["black"] = 740

-----------------------------------------------------------------------------
(* Properties of simulating a synthesized definition *)

\* the definitions create_improved_definition returns for the catalog
Synthesized == { create_improved_definition(d) : d \in Catalog }

\* C16: when a synthesized definition is simulated with the improved detection
\* map as the override, the probability the detection draw is compared with is
\* improved[race], with none of the ex parte, HIE, MDS or claims-lag bonuses
\* of the definition added.
Cex_C16_NoBonusOnImprovedMap ==
    ( /\ res.op = "simulate_exemption_single"
      /\ args.defn \in Synthesized
      /\ args.p_detect_override = << P_DETECT_IMPROVED >>
      /\ args.individual.race_eth \in DOMAIN P_DETECT_IMPROVED
      /\ res.draws # <<>> )
    => res.draws[1].p = P_DETECT_IMPROVED[args.individual.race_eth]

\* C17: every Monte Carlo pass over a synthesized definition made by
\* run_improved_simulation, decompose_underidentification or
\* run_sensitivity_analysis is given the improved detection map as its
\* detection override.
Cex_C17_ImprovedMapOnEveryPass ==
    ( /\ res.op \in {"run_improved_simulation", "decompose_underidentification",
                     "run_sensitivity_analysis"} )
    => \A k \in DOMAIN res.passes :
          res.passes[k].synthesized
          => res.passes[k].p_detect_override = << P_DETECT_IMPROVED >>

-----------------------------------------------------------------------------
(* Properties of two aggregator runs *)

\* x <= y for two percentages, neither NaN
RatLeq(x, y) == ~ IsNaN(x) /\ ~ IsNaN(y) /\ x.n * y.d <= y.n * x.d

\* group k's certification probability is not lower in the second run
CertNotLowered(k) ==
    CertProbability(res.first.table[k].race_eth, args.p_cert_override)
        <= CertProbability(res.first.table[k].race_eth, args.p_cert_second)

\* C19: under ACTIVE ex parte with certification required, a race whose
\* certification probability is not lower in the second of two runs (same
\* cohort, definition, n_sim, detection map and seed) has a simulated
\* exemption percentage that is not lower in the second run, and every single
\* outcome of an individual of that race that was exempt in the first run is
\* exempt in the second.
Thm_C19_CertificationMonotone ==
    ( /\ res.op = "run_monte_carlo_twice"
      /\ args.defn.ex_parte_determination = "ACTIVE"
      /\ args.defn.requires_physician_cert )
    => /\ DOMAIN res.first.table = DOMAIN res.second.table
       /\ \A k \in DOMAIN res.first.table :
             CertNotLowered(k)
             => /\ res.first.table[k].race_eth = res.second.table[k].race_eth
                /\ RatLeq(res.first.table[k].simulated_exempt_pct,
                          res.second.table[k].simulated_exempt_pct)
                /\ \A i \in DOMAIN res.first.outcomes[k] :
                      \A j \in DOMAIN res.first.outcomes[k][i] :
                         res.first.outcomes[k][i][j] => res.second.outcomes[k][i][j]

\* the black rate raised from the default 0.64 to 0.90 with the white rate
\* lowered from the default 0.81 to 0.60: the black percentage goes up and the
\* white one down
Wit_C19_RaisedAndLowered ==
    /\ res.op = "run_monte_carlo_twice"
    /\ args.defn.ex_parte_determination = "ACTIVE"
    /\ args.defn.requires_physician_cert
    /\ args.p_cert_override = <<>>
    /\ \E k \in DOMAIN res.first.table, w \in DOMAIN res.first.table :
          /\ res.first.table[k].race_eth = "black"
          /\ res.first.table[w].race_eth = "white"
          /\ CertNotLowered(k)
          /\ ~ CertNotLowered(w)
          /\ RatLess(res.first.table[k].simulated_exempt_pct,
                     res.second.table[k].simulated_exempt_pct)
          /\ RatLess(res.second.table[w].simulated_exempt_pct,
                     res.first.table[w].simulated_exempt_pct)

-----------------------------------------------------------------------------
(* Properties of decompose_racial_gap under equal rates *)

\* every race has the same rate in the dict
EqualAcrossRaces(table) == \A r1 \in DOMAIN table, r2 \in DOMAIN table : table[r1] = table[r2]

RatesAreEqual == EqualAcrossRaces(tables.P_DETECT) /\ EqualAcrossRaces(tables.P_CERT)

\* the report has algorithm_gap = observed_gap, a number, and both channels 0
NoChannelReported ==
    /\ ~ res.raised
    /\ ~ IsNaN(res.value.observed_gap_pp)
    /\ res.value.algorithm_gap_pp = res.value.observed_gap_pp
    /\ res.value.visibility_channel_pp = Rat(0, 1)
    /\ res.value.documentation_channel_pp = Rat(0, 1)

HasGroup(df, race) == \E k \in DOMAIN df : df[k].race_eth = race

\* C20: with detection rates equal across races and certification rates equal
\* across races, decompose_racial_gap reports algorithm_gap equal to
\* observed_gap and both channels zero, for every cohort and definition.
Cex_C20_EqualRatesNoChannel ==
    ( /\ res.op = "decompose_racial_gap"
      /\ RatesAreEqual )
    => NoChannelReported

\* the cohort has a row with a race label
HasSomeGroup(df) == \E k \in DOMAIN df : df[k].race_eth # "NA"

\* C20 (amended): the same for every cohort that has a black and a white
\* group; for a cohort that has some race group but lacks the black or the
\* white one, the two gaps and the two channels are reported as NaN.
Thm_C20_EqualRatesNoChannelBothGroups ==
    ( /\ res.op = "decompose_racial_gap"
      /\ RatesAreEqual )
    => /\ (HasGroup(args.df, "black") /\ HasGroup(args.df, "white"))
             => NoChannelReported
       /\ ( /\ HasSomeGroup(args.df)
            /\ ~ (HasGroup(args.df, "black") /\ HasGroup(args.df, "white")) )
             => /\ ~ res.raised
                /\ IsNaN(res.value.observed_gap_pp)
                /\ IsNaN(res.value.algorithm_gap_pp)
                /\ IsNaN(res.value.visibility_channel_pp)
                /\ IsNaN(res.value.documentation_channel_pp)

\* equal rates other than the white rates of the source, and a cohort whose
\* observed gap is not zero
Wit_C20_GapWithoutChannels ==
    /\ res.op = "decompose_racial_gap"
    /\ RatesAreEqual
    /\ tables.P_DETECT["white"] # P_DETECT["white"]
    /\ tables.P_CERT["white"] # P_CERT["white"]
    /\ HasGroup(args.df, "black")
    /\ HasGroup(args.df, "white")
    /\ NoChannelReported
    /\ res.value.observed_gap_pp # Rat(0, 1)

-----------------------------------------------------------------------------
(* Properties of the fallback for a race the probability map does not hold *)

\* the map in effect: the override when a non-empty one is supplied, the
\* default table otherwise
MapInEffect(override, table) ==
    IF override # <<>> /\ DOMAIN override[1] # {} THEN override[1] ELSE table

DetectMapInEffect == MapInEffect(args.p_detect_override, P_DETECT)

CertMapInEffect == MapInEffect(args.p_cert_override, P_CERT)

\* C21: an individual whose race label is not a key of the map in effect is
\* simulated with the "other" rate of that map, at the detection stage and at
\* the certification stage.
Cex_C21_OtherRateOfMapInEffect ==
    SimulatedEligible
    => /\ ( /\ args.individual.race_eth \notin DOMAIN DetectMapInEffect
            /\ "other" \in DOMAIN DetectMapInEffect )
          => res.draws[1].p =
                 Min(DetectMapInEffect["other"] + DetectionBonus(args.defn), 980)
       /\ ( /\ args.individual.race_eth \notin DOMAIN CertMapInEffect
            /\ "other" \in DOMAIN CertMapInEffect )
          => \A k \in DOMAIN res.draws :
                res.draws[k].stage = "cert"
                => res.draws[k].p = CertMapInEffect["other"]

-----------------------------------------------------------------------------
(* Properties of the weighted aggregation *)

\* the weight an individual counts with: 1 when the PWGTP cell is NaN
CountedWeight(row) == IF row.PWGTP = <<>> THEN 1 ELSE row.PWGTP[1]

\* total counted weight of the individuals of a group exempt in draw j
ExemptWeight(gr, j) ==
    SumSeq([i \in DOMAIN gr.sample |->
               IF gr.exempt_draws[i][j] THEN CountedWeight(gr.sample[i]) ELSE 0])

\* total counted weight of a group
TotalWeight(gr) == SumSeq([i \in DOMAIN gr.sample |-> CountedWeight(gr.sample[i])])

\* C22: in every group of a run_monte_carlo call, an individual whose weight
\* is NaN has a row of outcomes like any other (it is not dropped), counts 1 in
\* the numerator of every per-draw weighted exempt fraction when exempt and 1
\* in the denominator, and the call returns a table.
Thm_C22_MissingWeightCountsOne ==
    res.op = "run_monte_carlo"
    => \A k \in DOMAIN res.groups :
          LET gr == res.groups[k]
          IN  /\ gr.row.n_individuals = Len(gr.sample)
              /\ DOMAIN gr.exempt_draws = DOMAIN gr.sample
              /\ \A i \in DOMAIN gr.sample :
                    gr.sample[i].PWGTP = <<>> => gr.weights[i] = 1
              /\ \A j \in 1..args.n_sim :
                    gr.exempt_by_sim[j] = ExemptWeight(gr, j)
              /\ TotalWeight(gr) > 0
              /\ gr.row.simulated_exempt_pct =
                     Rat(100 * SumSeq([j \in 1..args.n_sim |-> ExemptWeight(gr, j)]),
                         args.n_sim * TotalWeight(gr))

\* a group of one individual without weight, exempt in every draw, and one of
\* weight 3 never exempt: the percentage is 1 / (1 + 3)
Wit_C22_OneOfFour ==
    /\ res.op = "run_monte_carlo"
    /\ \E k \in DOMAIN res.groups :
          LET gr == res.groups[k]
          IN  /\ Len(gr.sample) = 2
              /\ \E i \in DOMAIN gr.sample :
                    /\ gr.sample[i].PWGTP = <<>>
                    /\ \A j \in 1..args.n_sim : gr.exempt_draws[i][j]
              /\ TotalWeight(gr) = 4
              /\ gr.row.simulated_exempt_pct = Rat(25, 1)

-----------------------------------------------------------------------------
(* Properties of the simulator on rates outside [0, 1] *)

\* a draw of the call was compared with a probability below 0 or above 1
ComparedOutOfRange ==
    \E k \in DOMAIN res.draws : res.draws[k].p < 0 \/ res.draws[k].p > 1000

\* C23: when a probability outside [0, 1] reaches the simulator the call
\* raises instead of producing an outcome.
Cex_C23_OutOfRangeRaises ==
    ( /\ res.op = "simulate_exemption_single"
      /\ ComparedOutOfRange )
    => "exempt" \notin DOMAIN res

-----------------------------------------------------------------------------
(* Properties of the generator shared by the iterations of one run *)

\* the outcomes run_monte_carlo simulates for an individual that is the only
\* row of the cohort
OutcomesAlone(ind) ==
    run_monte_carlo(<<ind>>, args.defn, args.n_sim, args.p_detect_override,
                    args.p_cert_override, args.sample_n).groups[1].exempt_draws[1]

\* C24: the outcomes simulated for an individual within a run are those it
\* gets whatever other individuals and race groups the cohort holds.
Cex_C24_OutcomesIndependentOfCohort ==
    res.op = "run_monte_carlo"
    => \A k \in DOMAIN res.groups :
          \A i \in DOMAIN res.groups[k].sample :
             res.groups[k].exempt_draws[i] = OutcomesAlone(res.groups[k].sample[i])

-----------------------------------------------------------------------------
(* Properties of the scores stored in the catalog *)

\* C25: the stringency_score a catalog definition carries is the value
\* compute_stringency_score derives from that definition's fields; California
\* has EHR and MDS data and the score 10.0.
Cex_C25_CatalogScoreIsDerived ==
    ( /\ res.op = "compute_stringency_score"
      /\ res.defn_before \in Catalog )
    => /\ res.value = res.defn_before.stringency_score
       /\ res.defn_before.state_code = "CA"
            => /\ res.defn_before.uses_ehr_data
               /\ res.defn_before.uses_mds_data
               /\ res.value = 100

-----------------------------------------------------------------------------
(* Properties of the channels of decompose_underidentification *)

\* a decompose_underidentification call that returned its dict
UnderidentificationReturned ==
    /\ res.op = "decompose_underidentification"
    /\ ~ res.raised

\* the means the channels are built from, read off the passes of the call
TrueDisOfCall == TrueDisabilityPct(BlackWhiteRows(args.df))
StatusQuoOfCall == SimulatedExemptMean(res.passes[1].table)
ExpandedOfCall == SimulatedExemptMean(res.passes[3].table)
ExpandedDetectedOfCall == SimulatedExemptMean(res.passes[4].table)

\* total_underid - design_channel - visibility_channel, unclamped
ResidualOfCall ==
    RatSub(RatSub(RatSub(TrueDisOfCall, StatusQuoOfCall),
                  RatSub(ExpandedOfCall, StatusQuoOfCall)),
           RatSub(ExpandedDetectedOfCall, ExpandedOfCall))

\* C26: documentation_channel_pp is the residual total - design - visibility
\* of the unclamped values, reported as 0 when negative; design_channel_pp and
\* visibility_channel_pp are reported as 0 when negative.
Cex_C26_DocumentationIsResidual ==
    UnderidentificationReturned
    => /\ res.value.documentation_channel_pp = Round2(Max0(ResidualOfCall))
       /\ res.value.design_channel_pp =
              Round2(Max0(RatSub(ExpandedOfCall, StatusQuoOfCall)))
       /\ res.value.visibility_channel_pp =
              Round2(Max0(RatSub(ExpandedDetectedOfCall, ExpandedOfCall)))

-----------------------------------------------------------------------------
(* Properties relating the simulated and the eligible percentage of a row *)

\* C28: with nonnegative weights of positive sum, the simulated exemption
\* percentage of a row, and the weighted exempt fraction of each draw, do not
\* exceed the row's clinically-eligible percentage.
Cex_C28_ExemptWithinEligible ==
    res.op = "run_monte_carlo"
    => \A k \in DOMAIN res.groups :
          LET gr == res.groups[k]
          IN  ( /\ \A i \in DOMAIN gr.weights : gr.weights[i] >= 0
                /\ TotalWeight(gr) > 0 )
              => /\ ~ RatLess(gr.row.clinically_eligible_pct,
                              gr.row.simulated_exempt_pct)
                 /\ \A j \in 1..args.n_sim :
                       ~ RatLess(gr.row.clinically_eligible_pct,
                                 Rat(100 * gr.exempt_by_sim[j], TotalWeight(gr)))

-----------------------------------------------------------------------------
(* Properties of the counterfactual pass of run_counterfactual *)

\* a run_counterfactual call that returned its table
CounterfactualReturned ==
    /\ res.op = "run_counterfactual"
    /\ ~ res.raised

\* C29: the counterfactual pass does not depend on the target:
\* counterfactual_gap_pp is the same on every returned row, and the row of a
\* target that is the reference state has reducible_gap_pp = 0.
Thm_C29_CounterfactualPassIgnoresTarget ==
    CounterfactualReturned
    => /\ \A i, j \in DOMAIN res.table :
             res.table[i].counterfactual_gap_pp = res.table[j].counterfactual_gap_pp
       /\ \A i \in DOMAIN res.table :
             res.table[i].state = args.reference_state_code
             => /\ res.table[i].reducible_gap_pp = Round2(Rat(0, 1))
                /\ res.table[i].actual_gap_pp = res.table[i].counterfactual_gap_pp

\* a table with the row of the reference state and the row of a state whose
\* gap the reference algorithm changes
Wit_C29_ReferenceAmongTargets ==
    /\ CounterfactualReturned
    /\ \E i, j \in DOMAIN res.table :
          /\ res.table[i].state = args.reference_state_code
          /\ res.table[j].state # args.reference_state_code
          /\ res.table[j].reducible_gap_pp # Round2(Rat(0, 1))
          /\ res.table[j].actual_gap_pp # res.table[j].counterfactual_gap_pp

\* C30: run_counterfactual called with a reference state of the catalog
\* returns a table and does not raise, also when no target yields a row.
Cex_C30_KnownReferenceReturnsTable ==
    ( /\ res.op = "run_counterfactual"
      /\ STATE_FRAILTY_BY_CODE(args.reference_state_code) # <<>> )
    => ~ res.raised

====
